---- MODULE Spec2Model ----
(***************************************************************************)
(* Research orchestration engine of the Deep Research CLI.                 *)
(*                                                                         *)
(* Part 1: runParallelResearch (src/src/agent/sub-agent.ts), the worker    *)
(* pool that fans a batch of research steps out over concurrent            *)
(* SubResearchAgent.research invocations.  JavaScript runs one             *)
(* continuation at a time, so every action below is one synchronous        *)
(* segment of the code between two awaits.                                 *)
(***************************************************************************)
EXTENDS Integers, Sequences, FiniteSets, TLC

\* ------------------------------------------------------------------------
\* Generic helpers
\* ------------------------------------------------------------------------

Min(a, b) == IF a <= b THEN a ELSE b

Max(a, b) == IF a >= b THEN a ELSE b

\* An optional argument or setting: Unset when it was not passed (typeof
\* value !== 'number' / 'boolean'), Given(v) when it was.
Unset == [given |-> FALSE]

Given(v) == [given |-> TRUE, value |-> v]

\* An array slot that was never written (new Array(n) leaves holes).
Hole == [hole |-> TRUE]

\* ------------------------------------------------------------------------
\* Bounds of the runner model
\* ------------------------------------------------------------------------

\* Largest batch handed to runParallelResearch.
MaxSteps == 3

\* The source counts a successful research() may report.
SourceCounts == {0, 2}

\* The error messages a failing research() may throw ("" is an Error with
\* an empty message).
ErrorMessages == {"Request timed out", ""}

\* The progress texts research() reports between its awaits, in order.
ResearchStatusTexts == <<"Searching...", "Analyzing sources...">>

VARIABLES
    \* ---- runParallelResearch ----
    r_pc,           \* "init" | "starting" | "running" | "returned"
    steps,          \* the batch: sequence of step ids
    reqConcurrency, \* options.concurrency, or Unset
    outcome,        \* per step: how its research() invocation settled
    statuses,       \* AgentStatus[] (live)
    results,        \* SubAgentReport[] with holes
    nextIndex,      \* shared index counter (0-based as in the code)
    workers,        \* per worker: position in its loop
    started,        \* number of workers whose first segment has run
    invocations,    \* per step index: number of agent.research calls made
    disorder,       \* a report was stored while a lower slot was still empty
    ret,            \* the array the returned promise resolved with
    stepStatus,     \* per step: the step object's status field
    progressLog,    \* the onProgress calls: the completed and total they reported
    progressFor,    \* per step index: number of onProgress calls made for the step
    \* ---- follow-up (gap) loops ----
    f_pc,             \* "start" | "loop" | "synthesis"
    site,             \* "coordinator" | "deep" | "search": which loop runs
    maxFollowupSteps, \* config.maxFollowupSteps: Unset or Given(integer)
    autoFollowup,     \* config.autoFollowup && AUTO_FOLLOWUP !== '0'
    planQueries,      \* searchQuery of each step of the initial plan
    executedQueries,  \* the executed-query set (keys)
    additionalRounds, \* round counter of the sub-agent orchestrators
    followUpsUsed,    \* follow-up step counter of the search command
    evalCalls,        \* gap-evaluation model calls made so far
    batchesRun,       \* follow-up batches executed so far
    earlierKeys,      \* keys of the queries of all steps of earlier batches
    lastBatchKeys,    \* keys of the queries of the steps of the latest batch
    lastRound,        \* what the latest pass through the loop body did
    \* ---- recursion of SubResearchAgent.research ----
    d_pc,             \* "config" | "running" | "done" | "failed"
    maxDepthOption,   \* options.maxRecursionDepth of the top-level agent
    maxDepthEnv,      \* SUBAGENT_MAX_RECURSION_DEPTH
    rootRounds,       \* maxSearchRounds of the top-level agent
    stack,            \* the research() invocations in progress, outermost first
    deepest,          \* greatest depth any research() invocation ran at
    identifyCalls,    \* whether a sub-topic identification call was made
    childStarts,      \* whether a child research was started
    researchCalls,    \* research() invocations started for the top-level step
    \* ---- SubResearchAgent.analyzeSources ----
    a_pc,             \* "config" | "loop" | "join" | "sent"
    allSources,       \* the sources handed to analyzeSources
    sourceTextChars,  \* per-source cap of a source that was not expanded
    expandedTextChars,    \* per-source cap of an expanded source
    maxTotalSourceChars,  \* the total budget; Unset stands for Infinity
    remaining,        \* what is left of the budget; Unset stands for Infinity
    sourceContextParts,   \* the parts pushed so far
    sourceContext,    \* length of the joined context once it is sent
    \* ---- mergeResult in SubResearchAgent.research ----
    g_pc,             \* "merging" while search results are being merged
    mergedByUrl,      \* the URL-keyed map of merged search results
    mergeLog,         \* the results handed to mergeResult so far, in order
    \* ---- one SubResearchAgent.research invocation, call by call ----
    b_pc,             \* which awaited call is pending, or "resolved" / "rejected"
    maxSearchRounds,  \* this.maxSearchRounds
    expandSources,    \* expandSources && this.maxExpandedUrls > 0
    mayRecurse,       \* this.currentDepth < this.maxRecursionDepth
    round,            \* the search round in progress
    searchResults,    \* ids of the merged search results
    expandedSources,  \* ids of the sources read in full
    summary,          \* the summary, as a sequence of sections
    keyInsights,      \* the insights collected so far
    subTopics,        \* number of sub-topics to research
    childIndex,       \* the sub-topic whose child research is running
    callsMade,        \* how many calls of each kind were issued
    failedCalls,      \* the kinds of call that threw or answered unusably
    rejectedBy,       \* the call whose failure made research() reject
    beforeChild,      \* summary, sources and insights when the child started
    childFailed,      \* whether the child that settled last had thrown
    report,           \* what research() resolved with
    \* ---- ResearchPlanner.createPlan / parsePlanResponse ----
    p_pc,             \* "config" | "asked" | "done"
    planner,          \* which parser is in use: "zod" or "legacy"
    planContent,      \* the model's answer
    strictTwin,       \* the strictly valid JSON the answer was derived from
    planResult,       \* what parsePlanResponse returned or threw
    \* ---- FactChecker.verify / formatAsMarkdown ----
    k_pc,             \* "call" | "extracting" | "verifying" | "returned" | "formatted" | "rejected"
    factSources,      \* the sources handed to verify
    extraction,       \* the model's response to the claim extraction request
    claims,           \* what extractClaims returned
    verifications,    \* one ClaimVerification per claim handled so far
    sourceIndex,      \* sources consulted so far for the claim in hand
    requests,         \* verification requests sent: claim, source url, verdict
    failedRequests,   \* requests that rejected or gave no usable JSON
    verification,     \* the VerificationResult verify returned
    markdown,         \* what formatAsMarkdown returned for it
    \* ---- OpenRouterClient / ExaClient fetchWithRetry ----
    h_pc,             \* "call" | "fetching" | "waiting" | "done"
    clientOp,         \* "chat" | "listModels" | "search" | "getContents"
    attempt,          \* the loop variable of fetchWithRetry
    history,          \* what each fetch of this call gave: a status or an error
    lastResponse,     \* the last response received
    lastError,        \* the last error caught
    delays,           \* the back-off delays waited for, in milliseconds
    callResult,       \* what the client call gave its caller
    \* ---- ReasoningSummarizer ----
    z_pc,             \* "new" before the constructor ran, then "ready"
    sumOptions,       \* bufferThreshold, maxSummaries, minGapMs as constructed
    bufferLen,        \* this.buffer.length
    lastSummary,      \* this.lastSummary
    summaryCache,     \* this.summaryCache
    summaryCount,     \* this.summaryCount
    lastSummaryTime,  \* this.lastSummaryTime
    clock,            \* Date.now()
    pendingAdds,      \* addReasoning calls waiting for the model
    pendingFlushes,   \* flush calls waiting for the model
    produced,         \* non-null results since the last reset
    chatCalls,        \* model calls issued since the last reset
    sumCalls,         \* addReasoning, flush and reset calls made
    lastStep,         \* the last call or settlement: its kind and what it did
    \* ---- ResearchExecutor.executeAll and the search command around it ----
    x_pc,             \* "call" | "searching" | "followups" | "synthesis" | "report" | "exit"
    execStatuses,     \* status of each plan step
    searchesIssued,   \* step indices (0-based) in the order their search was issued
    progressCalls,    \* the onProgress calls: index and the status the step then had
    settleOrder,      \* step indices in the order their search settled
    execResult,       \* what executeAll resolved with or rejected
    followUpStatuses, \* the follow-up searches of the command: "searching" | "ok" | "failed"
    commandResults,   \* the results the command hands to the synthesizer
    \* ---- construction of a SubResearchAgent ----
    o_pc,          \* "new" | "constructed"
    ctorSupplied,  \* per limit: the constructor option and the environment variable
    agentLimits,   \* the effective limits of the constructed agent
    \* ---- the search loop of SubResearchAgent.research ----
    l_pc,           \* "call" | "searching" | "suggesting" | "left" | "rejected"
    loopLimit,      \* this.maxSearchRounds
    currentQuery,   \* the query of the current round
    usedQueryKeys,  \* normalized keys of the queries searched
    queriesUsed,    \* the queries searched, in order
    loopRound,      \* the round counter of the for loop
    loopLog,        \* searches issued, merges done, suggestions asked for and received
    \* ---- source expansion in SubResearchAgent.research ----
    u_pc,              \* "loopLeft" | "selecting" | "reading" | "analysis" | "rejected"
    expansionOptions,  \* expandSources, maxExpandedUrls, expansionCandidates
    foundSources,      \* URLs of searchResults, best first
    selectionCalls,    \* the source lists sent with a selection request
    contentsCalls,     \* the URL lists getContents was called with
    \* ---- ids of follow-up steps ----
    j_pc,         \* "loop" | "synthesis"
    idSite,       \* "deep" | "coordinator" | "search"
    planStepIds,  \* ids of plan.steps, in order
    reportCount,  \* allReports.length
    followUpIds,  \* ids of the follow-up steps created, round by round
    idRounds,     \* follow-up rounds run
    \* ---- the research() invocations of one batch on one agent ----
    c_pc,          \* "batch" while the invocations of a batch run
    sharedLimit,   \* this.maxSearchRounds of the one agent instance
    batchQueries,  \* per step of the batch: its query
    invocationOf,  \* per step: the locals of its research() invocation
    interleaved    \* an invocation took a step while another was under way

runnerVars == <<r_pc, steps, reqConcurrency, outcome, statuses, results, nextIndex,
                workers, started, invocations, disorder, ret, stepStatus,
                progressLog, progressFor>>

followupVars == <<f_pc, site, maxFollowupSteps, autoFollowup, planQueries,
                  executedQueries, additionalRounds, followUpsUsed, evalCalls,
                  batchesRun, earlierKeys, lastBatchKeys, lastRound>>

analyzeVars == <<a_pc, allSources, sourceTextChars, expandedTextChars, maxTotalSourceChars,
                 remaining, sourceContextParts, sourceContext>>

recursionVars == <<d_pc, maxDepthOption, maxDepthEnv, rootRounds, stack, deepest,
                   identifyCalls, childStarts, researchCalls>>

mergeVars == <<g_pc, mergedByUrl, mergeLog>>

bodyVars == <<b_pc, maxSearchRounds, expandSources, mayRecurse, round, searchResults,
              expandedSources, summary, keyInsights, subTopics, childIndex,
              callsMade, failedCalls, rejectedBy, beforeChild, childFailed, report>>

plannerVars == <<p_pc, planner, planContent, strictTwin, planResult>>

factCheckVars == <<k_pc, factSources, extraction, claims, verifications, sourceIndex,
                   requests, failedRequests, verification, markdown>>

retryVars == <<h_pc, clientOp, attempt, history, lastResponse, lastError, delays,
               callResult>>

summarizerVars == <<z_pc, sumOptions, bufferLen, lastSummary, summaryCache,
                    summaryCount, lastSummaryTime, clock, pendingAdds,
                    pendingFlushes, produced, chatCalls, sumCalls, lastStep>>

executorVars == <<x_pc, execStatuses, searchesIssued, progressCalls, settleOrder,
                  execResult, followUpStatuses, commandResults>>

constructorVars == <<o_pc, ctorSupplied, agentLimits>>

searchLoopVars == <<l_pc, loopLimit, currentQuery, usedQueryKeys, queriesUsed,
                    loopRound, loopLog>>

expansionVars == <<u_pc, expansionOptions, foundSources, selectionCalls, contentsCalls>>

stepIdsVars == <<j_pc, idSite, planStepIds, reportCount, followUpIds, idRounds>>

sharedVars == <<c_pc, sharedLimit, batchQueries, invocationOf, interleaved>>

\* Everything a step of runParallelResearch leaves alone.
nonRunnerVars == <<followupVars, recursionVars, analyzeVars, mergeVars, bodyVars, plannerVars, factCheckVars, retryVars, summarizerVars, executorVars, constructorVars, searchLoopVars, expansionVars, stepIdsVars, sharedVars>>

\* Everything a step of a follow-up loop leaves alone.
nonFollowupVars == <<runnerVars, recursionVars, analyzeVars, mergeVars, bodyVars, plannerVars, factCheckVars, retryVars, summarizerVars, executorVars, constructorVars, searchLoopVars, expansionVars, stepIdsVars, sharedVars>>

\* Everything a step of the recursion leaves alone.
nonRecursionVars == <<runnerVars, followupVars, analyzeVars, mergeVars, bodyVars, plannerVars, factCheckVars, retryVars, summarizerVars, executorVars, constructorVars, searchLoopVars, expansionVars, stepIdsVars, sharedVars>>

\* Everything a step of analyzeSources leaves alone.
nonAnalyzeVars == <<runnerVars, followupVars, recursionVars, mergeVars, bodyVars, plannerVars, factCheckVars, retryVars, summarizerVars, executorVars, constructorVars, searchLoopVars, expansionVars, stepIdsVars, sharedVars>>

\* Everything a step of mergeResult leaves alone.
nonMergeVars == <<runnerVars, followupVars, analyzeVars, recursionVars, bodyVars, plannerVars, factCheckVars, retryVars, summarizerVars, executorVars, constructorVars, searchLoopVars, expansionVars, stepIdsVars, sharedVars>>

\* Everything a step of the research() body leaves alone.
nonBodyVars == <<runnerVars, followupVars, analyzeVars, recursionVars, mergeVars, plannerVars, factCheckVars, retryVars, summarizerVars, executorVars, constructorVars, searchLoopVars, expansionVars, stepIdsVars, sharedVars>>

\* Everything a step of the planner leaves alone.
nonPlannerVars == <<runnerVars, followupVars, analyzeVars, recursionVars, mergeVars, bodyVars, factCheckVars, retryVars, summarizerVars, executorVars, constructorVars, searchLoopVars, expansionVars, stepIdsVars, sharedVars>>

\* Everything a step of FactChecker.verify leaves alone.
nonFactCheckVars == <<runnerVars, followupVars, analyzeVars, recursionVars, mergeVars, bodyVars, plannerVars, retryVars, summarizerVars, executorVars, constructorVars, searchLoopVars, expansionVars, stepIdsVars, sharedVars>>

\* Everything a step of fetchWithRetry leaves alone.
nonRetryVars == <<runnerVars, followupVars, analyzeVars, recursionVars, mergeVars, bodyVars, plannerVars, factCheckVars, summarizerVars, executorVars, constructorVars, searchLoopVars, expansionVars, stepIdsVars, sharedVars>>

\* Everything a step of the ReasoningSummarizer leaves alone.
nonSummarizerVars == <<runnerVars, followupVars, analyzeVars, recursionVars, mergeVars, bodyVars, plannerVars, factCheckVars, retryVars, executorVars, constructorVars, searchLoopVars, expansionVars, stepIdsVars, sharedVars>>

\* Everything a step of the search command leaves alone.
nonExecutorVars == <<runnerVars, followupVars, analyzeVars, recursionVars, mergeVars, bodyVars, plannerVars, factCheckVars, retryVars, summarizerVars, constructorVars, searchLoopVars, expansionVars, stepIdsVars, sharedVars>>

\* Everything a step of the constructor leaves alone.
nonConstructorVars == <<runnerVars, followupVars, analyzeVars, recursionVars, mergeVars, bodyVars, plannerVars, factCheckVars, retryVars, summarizerVars, executorVars, searchLoopVars, expansionVars, stepIdsVars, sharedVars>>

\* Everything a step of the search loop leaves alone.
nonSearchLoopVars == <<runnerVars, followupVars, analyzeVars, recursionVars, mergeVars, bodyVars, plannerVars, factCheckVars, retryVars, summarizerVars, executorVars, constructorVars, expansionVars, stepIdsVars, sharedVars>>

\* Everything a step of the source expansion leaves alone.
nonExpansionVars == <<runnerVars, followupVars, analyzeVars, recursionVars, mergeVars, bodyVars, plannerVars, factCheckVars, retryVars, summarizerVars, executorVars, constructorVars, searchLoopVars, stepIdsVars, sharedVars>>

\* Everything a step of the follow-up step creation leaves alone.
nonStepIdsVars == <<runnerVars, followupVars, analyzeVars, recursionVars, mergeVars, bodyVars, plannerVars, factCheckVars, retryVars, summarizerVars, executorVars, constructorVars, searchLoopVars, expansionVars, sharedVars>>

\* Everything a step of the research() invocations of one batch on one agent leaves alone.
nonSharedVars == <<runnerVars, followupVars, analyzeVars, recursionVars, mergeVars, bodyVars, plannerVars, factCheckVars, retryVars, summarizerVars, executorVars, constructorVars, searchLoopVars, expansionVars, stepIdsVars>>

vars == <<runnerVars, followupVars, recursionVars, analyzeVars, mergeVars, bodyVars, plannerVars, factCheckVars, retryVars, summarizerVars, executorVars, constructorVars, searchLoopVars, expansionVars, stepIdsVars, sharedVars>>

\* ------------------------------------------------------------------------
\* runParallelResearch
\* ------------------------------------------------------------------------

\* How a research() invocation can settle: resolved with a report that has
\* `sources` sources, or rejected with an error carrying `message`.
OkFates == [settled : {TRUE}, ok : {TRUE}, sources : SourceCounts, message : {""}]

FailFates == [settled : {TRUE}, ok : {FALSE}, sources : {0}, message : ErrorMessages]

Pending == [settled |-> FALSE, ok |-> FALSE, sources |-> 0, message |-> ""]

\* The report research() resolves with for a step (its content is whatever
\* the agent produced; the runner passes it through untouched).
AgentReport(step, f) ==
    [step |-> step,
     summary |-> <<"## Key Findings", "- finding">>,
     sources |-> f.sources,
     keyInsights |-> 1]

\* sub-agent.ts:642-643
ShortMessage(message) == IF message = "" THEN "Sub-agent failed" ELSE message

\* sub-agent.ts:652-669: the report runOne synthesizes in its catch block.
DegradedReport(step, message) ==
    [step |-> step,
     summary |-> <<"## Key Findings", "- Sub-agent failed to complete",
                   "## Details", message,
                   "## Sources Used", "- (none)",
                   "## Gaps or Uncertainties",
                   "- This sub-topic could not be completed due to an error.">>,
     sources |-> 0,
     keyInsights |-> 0]

\* sub-agent.ts:606-613
InitialStatuses(ss) ==
    [i \in 1..Len(ss) |->
        [index |-> i - 1, status |-> "Waiting...", complete |-> FALSE,
         sources |-> 0, failed |-> FALSE]]

\* sub-agent.ts:615-623.  sources / failed are Unset when the argument is
\* omitted (typeof !== 'number' / 'boolean').
updateStatus(sts, index, status, complete, sources, failed) ==
    [sts EXCEPT ![index + 1] =
        [index |-> @.index,
         status |-> status,
         complete |-> complete,
         sources |-> IF sources.given THEN sources.value ELSE @.sources,
         failed |-> IF failed.given THEN failed.value ELSE @.failed]]

\* Variant of Concurrency without the Math.max(1, ...) floor.
ConcurrencyNoFloor(req, n) ==
    LET nOr1 == IF n = 0 THEN 1 ELSE n
        requested == IF req.given THEN req.value ELSE nOr1
    IN Min(requested, nOr1)

\* Variant of Concurrency that ignores the requested pool size (full fan-out).
ConcurrencyFullFanOut(req, n) == IF n = 0 THEN 1 ELSE n

\* sub-agent.ts:673-676.  steps.length || 1 ; an Unset option falls back to
\* envPositiveInt(SUBAGENT_CONCURRENCY, steps.length || 1), whose default is
\* modelled here.
Concurrency(req, n) ==
    LET nOr1 == IF n = 0 THEN 1 ELSE n
        requested == IF req.given THEN req.value ELSE nOr1
    IN Max(1, Min(requested, nOr1))

\* Variant of ClaimAndRun in which the claim does not advance the shared
\* counter (a stale read of nextIndex).
ClaimAndRunStale(w, sts) ==
    LET index == nextIndex IN
    /\ nextIndex' = IF index >= Len(steps) - 1 THEN nextIndex + 1 ELSE nextIndex
    /\ IF index >= Len(steps)
          THEN /\ workers' = [workers EXCEPT ![w] = [pc |-> "done", index |-> index,
                                                     phase |-> 0, report |-> Hole]]
               /\ statuses' = sts
               /\ invocations' = invocations
          ELSE /\ workers' = [workers EXCEPT ![w] = [pc |-> "research", index |-> index,
                                                     phase |-> 1, report |-> Hole]]
               /\ statuses' = updateStatus(sts, index, ResearchStatusTexts[1], FALSE,
                                           Unset, Unset)
               /\ invocations' = [invocations EXCEPT ![index + 1] = Min(@ + 1, 2)]

\* sub-agent.ts:682-686: one turn of a worker's loop up to its next await:
\* claim the next index, stop when the batch is exhausted, otherwise call
\* runOne -> agent.research, which reports its first status and suspends.
ClaimAndRun(w, sts) ==
    LET index == nextIndex IN
    /\ nextIndex' = nextIndex + 1
    /\ IF index >= Len(steps)
          THEN /\ workers' = [workers EXCEPT ![w] = [pc |-> "done", index |-> index,
                                                     phase |-> 0, report |-> Hole]]
               /\ statuses' = sts
               /\ invocations' = invocations
          ELSE /\ workers' = [workers EXCEPT ![w] = [pc |-> "research", index |-> index,
                                                     phase |-> 1, report |-> Hole]]
               /\ statuses' = updateStatus(sts, index, ResearchStatusTexts[1], FALSE,
                                           Unset, Unset)
               /\ invocations' = [invocations EXCEPT ![index + 1] = @ + 1]

IdleWorker == [pc |-> "idle", index |-> -1, phase |-> 0, report |-> Hole]

\* The caller invokes runParallelResearch: statuses and results are
\* allocated and the worker array is sized.
Call ==
    /\ r_pc = "init"
    /\ r_pc' = "starting"
    /\ statuses' = InitialStatuses(steps)
    /\ results' = [i \in 1..Len(steps) |-> Hole]
    /\ nextIndex' = 0
    /\ workers' = [w \in 1..Concurrency(reqConcurrency, Len(steps)) |-> IdleWorker]
    /\ started' = 0
    /\ UNCHANGED <<steps, reqConcurrency, outcome, invocations, disorder, ret, stepStatus, progressLog,
                   progressFor, nonRunnerVars>>

\* Array.from({length: concurrency}, async () => {...}) runs each worker's
\* first segment in turn, still inside the synchronous call.
StartWorker(w) ==
    /\ r_pc = "starting"
    /\ w = started + 1
    /\ ClaimAndRun(w, statuses)
    /\ started' = w
    /\ r_pc' = IF w = Len(workers) THEN "running" ELSE "starting"
    /\ UNCHANGED <<steps, reqConcurrency, outcome, results, disorder, ret, stepStatus, progressLog,
                   progressFor, nonRunnerVars>>

\* research() passes an await and reports its next progress text through
\* onStatus (updateStatus(index, status, false)).
ResearchProgress(w) ==
    /\ r_pc = "running"
    /\ workers[w].pc = "research"
    /\ workers[w].phase < Len(ResearchStatusTexts)
    /\ workers' = [workers EXCEPT ![w].phase = @ + 1]
    /\ statuses' = updateStatus(statuses, workers[w].index,
                                ResearchStatusTexts[workers[w].phase + 1], FALSE,
                                Unset, Unset)
    /\ UNCHANGED <<r_pc, steps, reqConcurrency, outcome, results, nextIndex, started,
                   invocations, disorder, ret, stepStatus, progressLog,
                   progressFor, nonRunnerVars>>

\* research() finishes: reportStatus('Complete') and the promise resolves
\* (sub-agent.ts:339-346).
ResearchResolve(w) ==
    /\ r_pc = "running"
    /\ workers[w].pc = "research"
    /\ workers[w].phase = Len(ResearchStatusTexts)
    /\ \E f \in OkFates : outcome' = [outcome EXCEPT ![workers[w].index + 1] = f]
    /\ workers' = [workers EXCEPT ![w].pc = "settled"]
    /\ statuses' = updateStatus(statuses, workers[w].index, "Complete", FALSE,
                                Unset, Unset)
    /\ UNCHANGED <<r_pc, steps, reqConcurrency, results, nextIndex, started,
                   invocations, disorder, ret, stepStatus, progressLog,
                   progressFor, nonRunnerVars>>

\* One of research()'s awaits throws (for instance the primary search
\* call): the promise rejects.
ResearchReject(w) ==
    /\ r_pc = "running"
    /\ workers[w].pc = "research"
    /\ \E f \in FailFates : outcome' = [outcome EXCEPT ![workers[w].index + 1] = f]
    /\ workers' = [workers EXCEPT ![w].pc = "settled"]
    /\ UNCHANGED <<r_pc, steps, reqConcurrency, statuses, results, nextIndex,
                   started, invocations, disorder, ret, stepStatus, progressLog,
                   progressFor, nonRunnerVars>>

\* Variant of RunOneCatch that omits the `failed` argument of updateStatus.
RunOneCatchNoFlag(w, sts, index, f) ==
    /\ statuses' = updateStatus(sts, index, "Error: " \o ShortMessage(f.message),
                                TRUE, Given(0), Unset)
    /\ workers' = [workers EXCEPT ![w].pc = "resumed",
                                   ![w].report = DegradedReport(steps[index + 1], f.message)]

\* Variant of RunOneCatch that leaves the slot of the failed step incomplete.
RunOneCatchNotComplete(w, sts, index, f) ==
    /\ statuses' = updateStatus(sts, index, "Error: " \o ShortMessage(f.message),
                                FALSE, Given(0), Given(TRUE))
    /\ workers' = [workers EXCEPT ![w].pc = "resumed",
                                   ![w].report = DegradedReport(steps[index + 1], f.message)]

\* sub-agent.ts:641-670, the catch block of runOne.
RunOneCatch(w, sts, index, f) ==
    /\ statuses' = updateStatus(sts, index, "Error: " \o ShortMessage(f.message),
                                TRUE, Given(0), Given(TRUE))
    /\ workers' = [workers EXCEPT ![w].pc = "resumed",
                                   ![w].report = DegradedReport(steps[index + 1], f.message)]

\* statuses.filter(s => s.complete).length
CompletedCount(sts) == Cardinality({i \in DOMAIN sts : sts[i].complete})

\* Variant of OnProgress in which the catch block of runOne makes no call.
OnProgressOnSuccessOnly(sts, index) ==
    IF sts[index + 1].failed
      THEN UNCHANGED <<progressLog, progressFor>>
      ELSE /\ progressLog' = Append(progressLog, [completed |-> CompletedCount(sts),
                                                  total |-> Len(steps)])
           /\ progressFor' = [progressFor EXCEPT ![index + 1] = @ + 1]

\* sub-agent.ts:634-640 and 645-651: callbacks.onProgress(<number of complete
\* slots>, steps.length, step), called right after updateStatus in the try
\* block and in the catch block alike.
OnProgress(sts, index) ==
    /\ progressLog' = Append(progressLog, [completed |-> CompletedCount(sts),
                                           total |-> Len(steps)])
    /\ progressFor' = [progressFor EXCEPT ![index + 1] = @ + 1]

\* sub-agent.ts:625-671: runOne resumes after `await agent.research(...)`.
\* Neither branch assigns step.status.
RunOneSettle(w) ==
    LET index == workers[w].index
        f == outcome[index + 1]
    IN
    /\ r_pc = "running"
    /\ workers[w].pc = "settled"
    /\ IF f.ok
          THEN /\ statuses' = updateStatus(statuses, index, "Complete", TRUE,
                                           Given(f.sources), Given(FALSE))
               /\ workers' = [workers EXCEPT ![w].pc = "resumed",
                                              ![w].report = AgentReport(steps[index + 1], f)]
          ELSE RunOneCatch(w, statuses, index, f)
    /\ OnProgress(statuses', index)
    /\ UNCHANGED <<r_pc, steps, reqConcurrency, outcome, results, nextIndex, started,
                   invocations, disorder, ret, stepStatus, nonRunnerVars>>

\* sub-agent.ts:685: results[index] = <the awaited report>, then the loop
\* goes round.
WorkerResume(w) ==
    /\ r_pc = "running"
    /\ workers[w].pc = "resumed"
    /\ results' = [results EXCEPT ![workers[w].index + 1] = workers[w].report]
    /\ disorder' = (disorder \/ \E i \in 1..workers[w].index : results[i] = Hole)
    /\ ClaimAndRun(w, statuses)
    /\ UNCHANGED <<r_pc, steps, reqConcurrency, outcome, started, ret, stepStatus, progressLog,
                   progressFor, nonRunnerVars>>

\* sub-agent.ts:689-690: await Promise.all(workers); return results.
Return ==
    /\ r_pc = "running"
    /\ \A w \in DOMAIN workers : workers[w].pc = "done"
    /\ r_pc' = "returned"
    /\ ret' = results
    /\ UNCHANGED <<steps, reqConcurrency, outcome, statuses, results, nextIndex, workers,
                   started, invocations, disorder, stepStatus, progressLog,
                   progressFor, nonRunnerVars>>

\* The batches: 0..MaxSteps steps with distinct ids, in ascending or in
\* descending id order (so that a step's id is not a function of its index).
StepBatches ==
    UNION {{[i \in 1..n |-> 20 + i], [i \in 1..n |-> 20 + n + 1 - i]} : n \in 0..MaxSteps}

RunnerInit ==
    /\ r_pc = "init"
    /\ steps \in StepBatches
    /\ reqConcurrency \in {Unset} \cup {Given(c) : c \in 0..MaxSteps}
    /\ outcome = [i \in 1..Len(steps) |-> Pending]
    /\ statuses = <<>>
    /\ results = <<>>
    /\ nextIndex = 0
    /\ workers = <<>>
    /\ started = 0
    /\ invocations = [i \in 1..Len(steps) |-> 0]
    /\ disorder = FALSE
    /\ ret = <<>>
    /\ stepStatus = [i \in 1..Len(steps) |-> "pending"]
    /\ progressLog = <<>>
    /\ progressFor = [i \in 1..Len(steps) |-> 0]

\* No runParallelResearch call is being modelled.
RunnerIdle ==
    /\ r_pc = "idle"
    /\ steps = <<>>
    /\ reqConcurrency = Unset
    /\ outcome = <<>>
    /\ statuses = <<>>
    /\ results = <<>>
    /\ nextIndex = 0
    /\ workers = <<>>
    /\ started = 0
    /\ invocations = <<>>
    /\ disorder = FALSE
    /\ ret = <<>>
    /\ stepStatus = <<>>
    /\ progressLog = <<>>
    /\ progressFor = <<>>

RunnerNext ==
    \/ Call
    \/ \E w \in DOMAIN workers : StartWorker(w)
    \/ \E w \in DOMAIN workers : ResearchProgress(w)
    \/ \E w \in DOMAIN workers : ResearchResolve(w)
    \/ \E w \in DOMAIN workers : ResearchReject(w)
    \/ \E w \in DOMAIN workers : RunOneSettle(w)
    \/ \E w \in DOMAIN workers : WorkerResume(w)
    \/ Return

\* No follow-up loop is being modelled.
FollowupIdle ==
    /\ f_pc = "idle"
    /\ site = "none"
    /\ maxFollowupSteps = Unset
    /\ autoFollowup = FALSE
    /\ planQueries = <<>>
    /\ executedQueries = {}
    /\ additionalRounds = 0
    /\ followUpsUsed = 0
    /\ evalCalls = 0
    /\ batchesRun = 0
    /\ earlierKeys = {}
    /\ lastBatchKeys = {}
    /\ lastRound = [ran |-> FALSE]

\* No research() recursion is being modelled.
RecursionIdle ==
    /\ d_pc = "idle"
    /\ maxDepthOption = Unset
    /\ maxDepthEnv = Unset
    /\ rootRounds = 0
    /\ stack = <<>>
    /\ deepest = 0
    /\ identifyCalls = FALSE
    /\ childStarts = FALSE
    /\ researchCalls = 0

\* No analyzeSources call is being modelled.
AnalyzeIdle ==
    /\ a_pc = "idle"
    /\ allSources = <<>>
    /\ sourceTextChars = 0
    /\ expandedTextChars = 0
    /\ maxTotalSourceChars = Unset
    /\ remaining = Unset
    /\ sourceContextParts = <<>>
    /\ sourceContext = Unset

\* No merging of search results is being modelled.
MergeIdle ==
    /\ g_pc = "idle"
    /\ mergedByUrl = <<>>
    /\ mergeLog = <<>>

\* No research() body is being modelled.
BodyIdle ==
    /\ b_pc = "idle"
    /\ maxSearchRounds = 0
    /\ expandSources = FALSE
    /\ mayRecurse = FALSE
    /\ round = 0
    /\ searchResults = <<>>
    /\ expandedSources = <<>>
    /\ summary = <<>>
    /\ keyInsights = <<>>
    /\ subTopics = 0
    /\ childIndex = 0
    /\ callsMade = <<>>
    /\ failedCalls = {}
    /\ rejectedBy = "none"
    /\ beforeChild = <<>>
    /\ childFailed = FALSE
    /\ report = Unset

\* No planning is being modelled.
PlannerIdle ==
    /\ p_pc = "idle"
    /\ planner = "none"
    /\ planContent = <<>>
    /\ strictTwin = Unset
    /\ planResult = Unset

\* No fact check is being modelled.
FactCheckIdle ==
    /\ k_pc = "idle"
    /\ factSources = <<>>
    /\ extraction = Unset
    /\ claims = <<>>
    /\ verifications = <<>>
    /\ sourceIndex = 0
    /\ requests = <<>>
    /\ failedRequests = 0
    /\ verification = Unset
    /\ markdown = Unset

\* No client call is being modelled.
RetryIdle ==
    /\ h_pc = "idle"
    /\ clientOp = "none"
    /\ attempt = 0
    /\ history = <<>>
    /\ lastResponse = Unset
    /\ lastError = Unset
    /\ delays = <<>>
    /\ callResult = Unset

\* No summarizer is being modelled.
SummarizerIdle ==
    /\ z_pc = "idle"
    /\ sumOptions = Unset
    /\ bufferLen = 0
    /\ lastSummary = <<>>
    /\ summaryCache = {}
    /\ summaryCount = 0
    /\ lastSummaryTime = 0
    /\ clock = 0
    /\ pendingAdds = 0
    /\ pendingFlushes = 0
    /\ produced = 0
    /\ chatCalls = 0
    /\ sumCalls = 0
    /\ lastStep = Unset

\* No search command is being modelled.
ExecutorIdle ==
    /\ x_pc = "idle"
    /\ execStatuses = <<>>
    /\ searchesIssued = <<>>
    /\ progressCalls = <<>>
    /\ settleOrder = <<>>
    /\ execResult = Unset
    /\ followUpStatuses = <<>>
    /\ commandResults = Unset

\* No agent construction is being modelled.
ConstructorIdle ==
    /\ o_pc = "idle"
    /\ ctorSupplied = Unset
    /\ agentLimits = Unset

\* No search loop is being modelled.
SearchLoopIdle ==
    /\ l_pc = "idle"
    /\ loopLimit = 0
    /\ currentQuery = <<>>
    /\ usedQueryKeys = {}
    /\ queriesUsed = <<>>
    /\ loopRound = 0
    /\ loopLog = <<>>

\* No source expansion is being modelled.
ExpansionIdle ==
    /\ u_pc = "idle"
    /\ expansionOptions = Unset
    /\ foundSources = <<>>
    /\ selectionCalls = <<>>
    /\ contentsCalls = <<>>

\* No follow-up step creation is being modelled.
StepIdsIdle ==
    /\ j_pc = "idle"
    /\ idSite = "none"
    /\ planStepIds = <<>>
    /\ reportCount = 0
    /\ followUpIds = <<>>
    /\ idRounds = 0

\* No batch of concurrent invocations is being modelled.
SharedIdle ==
    /\ c_pc = "idle"
    /\ sharedLimit = 0
    /\ batchQueries = <<>>
    /\ invocationOf = <<>>
    /\ interleaved = FALSE

Init == RunnerInit /\ FollowupIdle /\ RecursionIdle /\ AnalyzeIdle /\ MergeIdle /\ BodyIdle /\ PlannerIdle /\ FactCheckIdle /\ RetryIdle /\ SummarizerIdle /\ ExecutorIdle /\ ConstructorIdle /\ SearchLoopIdle /\ ExpansionIdle /\ StepIdsIdle /\ SharedIdle

Spec == Init /\ [][RunnerNext]_vars

\* ------------------------------------------------------------------------
\* Properties of runParallelResearch
\* ------------------------------------------------------------------------

Returned == r_pc = "returned"

FailureMarker == "- Sub-agent failed to complete"

Contains(lines, line) == \E k \in DOMAIN lines : lines[k] = line

\* Agent invocations in flight: research() promises not yet settled.
InFlight == Cardinality({w \in DOMAIN workers : workers[w].pc = "research"})

\* C1: for every batch (the empty one included), every pool size and every
\* pattern of agent success or failure, the call never gets stuck before it
\* resolves, and it resolves with exactly steps.length reports, report i
\* being the report of steps[i], whatever the completion order.
C1_ResultPerStepInOrder ==
    /\ ~Returned => ENABLED RunnerNext
    /\ Returned =>
          /\ Len(ret) = Len(steps)
          /\ \A i \in 1..Len(steps) : ret[i] # Hole /\ ret[i].step = steps[i]

\* C1 witness: a full batch returned after reports were stored out of index
\* order, with both a failed and a successful agent.
C1_Witness ==
    /\ Returned
    /\ Len(steps) = MaxSteps
    /\ disorder
    /\ \E i, j \in 1..Len(steps) : outcome[i].ok /\ ~outcome[j].ok

\* C2: the agent is invoked exactly once per step index: never twice, no two
\* workers hold the same index, and at return every index was invoked.
C2_EachStepExactlyOnce ==
    /\ \A i \in 1..Len(steps) : invocations[i] <= 1
    /\ \A v, w \in DOMAIN workers :
          (v # w /\ workers[v].pc \in {"research", "settled", "resumed"}
                 /\ workers[w].pc \in {"research", "settled", "resumed"})
             => workers[v].index # workers[w].index
    /\ Returned => \A i \in 1..Len(steps) : invocations[i] = 1

\* C2 witness: a batch larger than the pool has been fully processed, so
\* some worker claimed more than one index.
C2_Witness ==
    /\ Returned
    /\ Len(workers) < Len(steps)
    /\ Len(workers) > 1

\* C3: a step whose agent threw gets the degraded report (failure marker,
\* the error message, no sources, no insights) and a status slot with
\* complete and failed set; every other step gets exactly the report and
\* status its own agent outcome determines, whatever its siblings did.
C3_FailureIsolated ==
    Returned =>
      \A i \in 1..Len(steps) :
        IF outcome[i].ok
          THEN /\ ret[i] = AgentReport(steps[i], outcome[i])
               /\ statuses[i] = [index |-> i - 1, status |-> "Complete", complete |-> TRUE,
                                 sources |-> outcome[i].sources, failed |-> FALSE]
          ELSE /\ ret[i].step = steps[i]
               /\ Contains(ret[i].summary, FailureMarker)
               /\ Contains(ret[i].summary, outcome[i].message)
               /\ ret[i].sources = 0
               /\ ret[i].keyInsights = 0
               /\ statuses[i].complete
               /\ statuses[i].failed

\* C3 witness: three steps, the second agent threw, the other two succeeded.
C3_Witness ==
    /\ Returned
    /\ Len(steps) = 3
    /\ ~outcome[2].ok
    /\ outcome[1].ok
    /\ outcome[3].ok

\* C4: with a configured concurrency c >= 1 (n when not configured) the
\* number of agent invocations in flight never exceeds min(c, n).
C4_InFlightBounded ==
    LET n == Len(steps)
        c == IF reqConcurrency.given THEN reqConcurrency.value ELSE n
    IN (c >= 1 \/ ~reqConcurrency.given) => InFlight <= Min(c, n)

\* C4 witness: a pool smaller than the batch is saturated after a worker
\* has already come back for more work.
C4_Witness ==
    /\ reqConcurrency.given
    /\ reqConcurrency.value > 1
    /\ reqConcurrency.value < Len(steps)
    /\ InFlight = reqConcurrency.value
    /\ nextIndex > reqConcurrency.value

\* C35: runParallelResearch moves every step's status through the lifecycle,
\* so that when the batch returns no step is still pending and each is
\* complete or error.
C35_NoStepLeftPending ==
    Returned => \A i \in 1..Len(steps) : stepStatus[i] \in {"complete", "error"}

\* C36: onProgress is called exactly once for every step, whether its agent
\* succeeded or threw (never more, and once as soon as the step's slot is
\* complete), and the k-th call reports completed = k and total =
\* steps.length, whatever the completion order.
C36_ProgressOncePerStep ==
    /\ \A i \in DOMAIN statuses :
          progressFor[i] = (IF statuses[i].complete THEN 1 ELSE 0)
    /\ \A k \in DOMAIN progressLog :
          progressLog[k] = [completed |-> k, total |-> Len(steps)]
    /\ Returned => Len(progressLog) = Len(steps)

\* C36 witness: a full batch returned, its reports stored out of index
\* order, one agent having thrown and another succeeded, and the last
\* onProgress call reported the whole batch complete.
C36_Witness ==
    /\ Returned
    /\ Len(steps) = MaxSteps
    /\ disorder
    /\ \E i, j \in 1..Len(steps) : outcome[i].ok /\ ~outcome[j].ok
    /\ Len(progressLog) = MaxSteps
    /\ progressLog[MaxSteps].completed = MaxSteps

\* A slot that is complete stays complete and keeps its sources count.
CompleteSlotsFrozen ==
    \A i \in DOMAIN statuses :
      statuses[i].complete =>
        /\ i \in DOMAIN statuses'
        /\ statuses'[i].complete
        /\ statuses'[i].sources = statuses[i].sources

\* C37: in every status array handed to onStatusUpdate a failed slot is
\* complete; a complete slot never becomes incomplete again and its sources
\* count no longer changes; and the last array has every slot complete, with
\* failed set exactly for the steps whose agent threw and sources = 0 there.
C37_StatusArraysConsistent ==
    /\ [](\A i \in DOMAIN statuses : statuses[i].failed => statuses[i].complete)
    /\ [][CompleteSlotsFrozen]_vars
    /\ [](Returned =>
            \A i \in 1..Len(steps) :
              /\ statuses[i].complete
              /\ statuses[i].failed = ~outcome[i].ok
              /\ ~outcome[i].ok => statuses[i].sources = 0)

\* C37 witness: the batch returned with a failed slot and a successful slot
\* that has sources, in a pool small enough for a worker to have gone on to
\* another step after completing one.
C37_Witness ==
    /\ Returned
    /\ Len(workers) < Len(steps)
    /\ \E i, j \in 1..Len(steps) :
          /\ statuses[i].failed /\ statuses[i].complete /\ statuses[i].sources = 0
          /\ ~statuses[j].failed /\ statuses[j].complete /\ statuses[j].sources > 0

\* ------------------------------------------------------------------------
\* Part 2: the follow-up (gap) loops
\*   "coordinator": AgentCoordinator.executeResearchPlan (src/src/agent/interactive/ui.ts)
\*   "deep":        DeepResearchAgent.runDeepReport      (src/unnamed/part_002)
\*   "search":      the one-shot search command          (src/src/commands/search.ts)
\* A batch handed to runParallelResearch is modelled by Part 1; here it is
\* one step of the loop.
\* ------------------------------------------------------------------------

\* Largest maxFollowupSteps tried.
MaxFollowup == 2

\* Largest number of gaps in one model answer.
MaxGaps == 2

\* Counters that would grow without bound when no ceiling is configured
\* stop here; beyond it their value no longer decides anything (they are
\* only compared with Infinity).
CounterCap == MaxFollowup + 2

\* Strings are sequences of characters.
IsSpace(c) == c = " "

ToLowerChar(c) == IF c = "A" THEN "a" ELSE IF c = "B" THEN "b" ELSE c

\* String.prototype.toLowerCase
toLowerCase(q) == [i \in 1..Len(q) |-> ToLowerChar(q[i])]

RECURSIVE trimStart(_)
trimStart(q) == IF q # <<>> /\ IsSpace(Head(q)) THEN trimStart(Tail(q)) ELSE q

RECURSIVE trimEnd(_)
trimEnd(q) ==
    IF q # <<>> /\ IsSpace(q[Len(q)]) THEN trimEnd(SubSeq(q, 1, Len(q) - 1)) ELSE q

\* String.prototype.trim
trim(q) == trimEnd(trimStart(q))

\* q.replace(/\s+/g, ' ')
RECURSIVE collapseWhitespace(_)
collapseWhitespace(q) ==
    IF q = <<>> THEN <<>>
    ELSE IF IsSpace(Head(q)) THEN <<" ">> \o collapseWhitespace(trimStart(q))
    ELSE <<Head(q)>> \o collapseWhitespace(Tail(q))

\* ui.ts:318, part_002:1041: q.trim().replace(/\s+/g, ' ').toLowerCase()
normalizeQueryKey(q) == toLowerCase(collapseWhitespace(trim(q)))

\* search.ts:188, 276, 321: searchQuery.trim().toLowerCase()
SearchKey(q) == toLowerCase(trim(q))

\* The query strings tried.
qa == <<"a">>

qACapSpace == <<"A", " ">>

qb == <<"b">>

qab == <<"a", " ", "b">>

qaWideB == <<"a", " ", " ", "B">>

qBlank == <<" ">>

\* Stands for a query the model has never proposed and no step has used:
\* there are unboundedly many strings, so the model can always produce one.
\* Every occurrence denotes a different such string; it is therefore never
\* found in a set of keys, and adding it leaves the tracked part of the set
\* as it was.
FreshQuery == <<"#">>

Has(keys, key) == key # FreshQuery /\ key \in keys

Add(keys, key) == IF key = FreshQuery THEN keys ELSE keys \cup {key}

\* The initial plans tried: searchQuery of each step.  The Planner sets
\* searchQuery = step.searchQuery || step.question with a non-empty
\* question (part_009:160), so no searchQuery is the empty string.
PlanSamples == {<<qa>>, <<qab, qb>>, <<qBlank, qACapSpace>>}

Gap(q, sq, pr) == [query |-> q, searchQuery |-> sq, priority |-> pr]

\* The gap objects a model answer is built from.
GapSamples ==
    {Gap(Given(qa), Unset, "high"),
     Gap(Given(qACapSpace), Given(qb), "high"),
     Gap(Unset, Given(qb), "medium"),
     Gap(Unset, Given(qaWideB), "medium"),
     Gap(Unset, Given(qa), "low"),
     Gap(Given(qBlank), Given(qb), "high"),
     Gap(Given(FreshQuery), Given(FreshQuery), "high"),
     Gap(Unset, Unset, "high")}

GapLists == UNION {[1..n -> GapSamples] : n \in 0..MaxGaps}

\* What evaluateResearchGaps returns (ui.ts:599-671, part_002:1331): a
\* failed or unparsable model answer is {needsMore: false, gaps: []}.
Evaluations == [needsMore : BOOLEAN, gaps : GapLists]

\* ui.ts:334, part_002:1066-1070: the query text the filter reads off a gap.
RawQuery(gap) ==
    IF gap.query.given THEN trim(gap.query.value)
    ELSE IF gap.searchQuery.given THEN trim(gap.searchQuery.value)
    ELSE <<>>

\* ui.ts:331-340: the filter predicate of the coordinator.
CoordinatorKeeps(gap, executed) ==
    /\ RawQuery(gap) # <<>>
    /\ normalizeQueryKey(RawQuery(gap)) # <<>>
    /\ ~Has(executed, normalizeQueryKey(RawQuery(gap)))

\* ui.ts:344: searchQuery: gap.query || gap.searchQuery
CoordinatorStepQuery(gap) ==
    IF gap.query.given /\ gap.query.value # <<>> THEN gap.query.value
    ELSE gap.searchQuery.value

\* ui.ts:331-347: filter, then map to new steps (their searchQuery).
RECURSIVE CoordinatorGapSteps(_, _)
CoordinatorGapSteps(gaps, executed) ==
    IF gaps = <<>> THEN <<>>
    ELSE (IF CoordinatorKeeps(Head(gaps), executed)
             THEN <<CoordinatorStepQuery(Head(gaps))>> ELSE <<>>)
         \o CoordinatorGapSteps(Tail(gaps), executed)

\* part_002:1058-1088: the filter loop with its in-round seenQueries set;
\* the new steps get searchQuery: gap.query, the trimmed text (1116).
RECURSIVE DeepGapSteps(_, _, _)
DeepGapSteps(gaps, seenQueries, executed) ==
    IF gaps = <<>> THEN <<>>
    ELSE LET query == RawQuery(Head(gaps))
             key == normalizeQueryKey(query)
         IN IF query = <<>> \/ key = <<>> \/ Has(seenQueries, key) \/ Has(executed, key)
               THEN DeepGapSteps(Tail(gaps), seenQueries, executed)
               ELSE <<query>> \o DeepGapSteps(Tail(gaps), Add(seenQueries, key), executed)

GapSteps(where, gaps, executed) ==
    IF where = "coordinator" THEN CoordinatorGapSteps(gaps, executed)
    ELSE DeepGapSteps(gaps, {}, executed)

\* ui.ts:354, part_002:1120: gaps.forEach(g => executedQueries.add(normalizeQueryKey(...)))
RECURSIVE AddAll(_, _)
AddAll(executed, queries) ==
    IF queries = <<>> THEN executed
    ELSE AddAll(Add(executed, normalizeQueryKey(Head(queries))), Tail(queries))

\* Variant of InitialExecutedQueries that starts from the empty set.
InitialExecutedEmpty(queries) == {}

\* ui.ts:320-323, part_002:1042-1046: the set is seeded from the reports of
\* the initial batch; empty keys are not added.
InitialExecutedQueries(queries) ==
    {normalizeQueryKey(queries[i]) : i \in DOMAIN queries} \ {<<>>}

\* Variant of OrchestratorLoopGuard with an inclusive comparison.
OrchestratorLoopGuardInclusive(rounds, maxRounds) ==
    IF maxRounds.given THEN rounds <= maxRounds.value ELSE FALSE

\* ui.ts:325, part_002:1052: while (additionalRounds < maxAdditionalRounds);
\* with maxFollowupSteps undefined the comparison is false.
OrchestratorLoopGuard(rounds, maxRounds) ==
    IF maxRounds.given THEN rounds < maxRounds.value ELSE FALSE

\* The number of entries a set gains when the keys of `queries` are added
\* (each unseen query counts as an entry of its own).
RECURSIVE Growth(_, _)
Growth(executed, queries) ==
    IF queries = <<>> THEN 0
    ELSE LET key == normalizeQueryKey(Head(queries))
         IN (IF Has(executed, key) THEN 0 ELSE 1)
            + Growth(Add(executed, key), Tail(queries))

\* sub-agent.ts:215-219: the keys of the queries the agents of a batch
\* search first (step.searchQuery, which is non-empty here); a blank query
\* is never searched.  Unseen queries are left out, see FreshQuery.
BatchKeys(queries) ==
    {normalizeQueryKey(queries[i]) : i \in DOMAIN queries} \ {<<>>, FreshQuery}

Bump(counter) == Min(counter + 1, CounterCap)

IsOrchestrator == site \in {"coordinator", "deep"}

\* Initial execution: runParallelResearch(plan.steps), then the
\* executed-query set is built (ui.ts:294-323, part_002:998-1048).
OrchestratorStart ==
    /\ f_pc = "start"
    /\ IsOrchestrator
    /\ f_pc' = "loop"
    /\ executedQueries' = InitialExecutedQueries(planQueries)
    /\ additionalRounds' = 0
    /\ earlierKeys' = {}
    /\ lastBatchKeys' = BatchKeys(planQueries)
    /\ UNCHANGED <<site, maxFollowupSteps, autoFollowup, planQueries, followUpsUsed,
                   evalCalls, batchesRun, lastRound, nonFollowupVars>>

\* The while condition is false: on to synthesis.
OrchestratorExit ==
    /\ f_pc = "loop"
    /\ IsOrchestrator
    /\ ~OrchestratorLoopGuard(additionalRounds, maxFollowupSteps)
    /\ f_pc' = "synthesis"
    /\ UNCHANGED <<site, maxFollowupSteps, autoFollowup, planQueries, executedQueries,
                   additionalRounds, followUpsUsed, evalCalls, batchesRun, earlierKeys,
                   lastBatchKeys, lastRound, nonFollowupVars>>

\* How many gaps of a model answer are proposals with a non-empty query
\* whose key is not yet in the executed-query set, the set growing as the
\* proposals are taken in order.
RECURSIVE EligibleCount(_, _)
EligibleCount(gaps, executed) ==
    IF gaps = <<>> THEN 0
    ELSE LET key == normalizeQueryKey(RawQuery(Head(gaps)))
         IN IF key = <<>> \/ Has(executed, key)
               THEN EligibleCount(Tail(gaps), executed)
               ELSE 1 + EligibleCount(Tail(gaps), Add(executed, key))

\* One pass through the loop body (ui.ts:326-380, part_002:1053-1175):
\* evaluate the gaps, filter them, and either break or run the batch.
GapRound ==
    /\ f_pc = "loop"
    /\ IsOrchestrator
    /\ OrchestratorLoopGuard(additionalRounds, maxFollowupSteps)
    /\ \E evaluation \in Evaluations :
         LET gapSteps == GapSteps(site, evaluation.gaps, executedQueries)
             stop == ~evaluation.needsMore \/ gapSteps = <<>>
         IN /\ evalCalls' = Bump(evalCalls)
            /\ lastRound' = [ran |-> TRUE,
                             needsMore |-> evaluation.needsMore,
                             eligible |-> EligibleCount(evaluation.gaps, executedQueries),
                             created |-> Len(gapSteps),
                             executed |-> IF stop THEN 0 ELSE Len(gapSteps),
                             grew |-> IF stop THEN 0
                                      ELSE Growth(executedQueries, gapSteps),
                             batchesBefore |-> batchesRun]
            /\ IF stop
                  THEN /\ f_pc' = "synthesis"
                       /\ UNCHANGED <<executedQueries, additionalRounds, batchesRun,
                                      earlierKeys, lastBatchKeys>>
                  ELSE /\ f_pc' = "loop"
                       /\ executedQueries' = AddAll(executedQueries, gapSteps)
                       /\ additionalRounds' = additionalRounds + 1
                       /\ batchesRun' = Bump(batchesRun)
                       /\ earlierKeys' = earlierKeys \cup lastBatchKeys
                       /\ lastBatchKeys' = BatchKeys(gapSteps)
    /\ UNCHANGED <<site, maxFollowupSteps, autoFollowup, planQueries, followUpsUsed,
                   nonFollowupVars>>

\* search.ts:176: a number is floored at 0, anything else is Infinity
\* (Unset stands for Infinity here).
MaxFollowUpsTotal(maxSteps) ==
    IF maxSteps.given THEN Given(Max(0, maxSteps.value)) ELSE Unset

\* search.ts:221: while (followUpsUsed < maxFollowUpsTotal)
SearchLoopGuard(used, maxTotal) ==
    IF maxTotal.given THEN used < maxTotal.value ELSE TRUE

\* search.ts:266-276: the candidate filter; the result is the trimmed
\* searchQuery of each surviving gap.
RECURSIVE SearchCandidates(_, _)
SearchCandidates(gaps, executed) ==
    IF gaps = <<>> THEN <<>>
    ELSE LET g == Head(gaps)
             keep == /\ g.searchQuery.given
                     /\ trim(g.searchQuery.value) # <<>>
                     /\ g.priority \in {"high", "medium"}
                     /\ ~Has(executed, toLowerCase(trim(g.searchQuery.value)))
         IN (IF keep THEN <<trim(g.searchQuery.value)>> ELSE <<>>)
            \o SearchCandidates(Tail(gaps), executed)

\* search.ts:278: candidates.slice(0, remaining)
SliceRemaining(candidates, used, maxTotal) ==
    IF maxTotal.given
       THEN SubSeq(candidates, 1, Min(Len(candidates), maxTotal.value - used))
       ELSE candidates

\* search.ts:321: executedQueries.add(r.gap.searchQuery.trim().toLowerCase())
RECURSIVE SearchAddAll(_, _)
SearchAddAll(executed, queries) ==
    IF queries = <<>> THEN executed
    ELSE SearchAddAll(Add(executed, SearchKey(Head(queries))), Tail(queries))

RECURSIVE SearchGrowth(_, _)
SearchGrowth(executed, queries) ==
    IF queries = <<>> THEN 0
    ELSE LET key == SearchKey(Head(queries))
         IN (IF Has(executed, key) THEN 0 ELSE 1)
            + SearchGrowth(Add(executed, key), Tail(queries))

\* Variant of SearchUsedAfter that forgets to count the new follow-ups.
SearchUsedAfterStale(used, count, maxTotal) == used

\* search.ts:324: followUpsUsed += followUpResults.length
SearchUsedAfter(used, count, maxTotal) ==
    IF maxTotal.given THEN used + count ELSE Min(used + count, CounterCap)

\* What the gap model call of the search command yields (search.ts:230-259);
\* an answer that cannot be parsed gives followUp = null, which takes the
\* same branch as hasGaps = false.
FollowUps == [hasGaps : BOOLEAN, gaps : GapLists]

\* search.ts:162-190: the plan's steps have been searched (executeAll);
\* the loop is entered only with auto follow-up on and a ceiling other
\* than 0.
SearchStart ==
    /\ f_pc = "start"
    /\ site = "search"
    /\ earlierKeys' = {}
    /\ lastBatchKeys' = BatchKeys(planQueries)
    /\ IF autoFollowup /\ MaxFollowUpsTotal(maxFollowupSteps) # Given(0)
          THEN /\ f_pc' = "loop"
               /\ executedQueries' =
                     {SearchKey(planQueries[i]) : i \in DOMAIN planQueries} \ {<<>>}
               /\ followUpsUsed' = 0
          ELSE /\ f_pc' = "synthesis"
               /\ UNCHANGED <<executedQueries, followUpsUsed>>
    /\ UNCHANGED <<site, maxFollowupSteps, autoFollowup, planQueries, additionalRounds,
                   evalCalls, batchesRun, lastRound, nonFollowupVars>>

SearchExit ==
    /\ f_pc = "loop"
    /\ site = "search"
    /\ ~SearchLoopGuard(followUpsUsed, MaxFollowUpsTotal(maxFollowupSteps))
    /\ f_pc' = "synthesis"
    /\ UNCHANGED <<site, maxFollowupSteps, autoFollowup, planQueries, executedQueries,
                   additionalRounds, followUpsUsed, evalCalls, batchesRun, earlierKeys,
                   lastBatchKeys, lastRound, nonFollowupVars>>

\* One pass through the loop body of the search command (search.ts:221-326).
SearchRound ==
    /\ f_pc = "loop"
    /\ site = "search"
    /\ SearchLoopGuard(followUpsUsed, MaxFollowUpsTotal(maxFollowupSteps))
    /\ \E followUp \in FollowUps :
         LET maxTotal == MaxFollowUpsTotal(maxFollowupSteps)
             candidates == SearchCandidates(followUp.gaps, executedQueries)
             selected == SliceRemaining(candidates, followUpsUsed, maxTotal)
             stop == ~followUp.hasGaps \/ selected = <<>>
         IN /\ evalCalls' = Bump(evalCalls)
            /\ lastRound' = [ran |-> TRUE,
                             needsMore |-> followUp.hasGaps,
                             eligible |-> Len(candidates),
                             created |-> Len(selected),
                             executed |-> IF stop THEN 0 ELSE Len(selected),
                             grew |-> IF stop THEN 0
                                      ELSE SearchGrowth(executedQueries, selected),
                             batchesBefore |-> batchesRun]
            /\ IF stop
                  THEN /\ f_pc' = "synthesis"
                       /\ UNCHANGED <<executedQueries, followUpsUsed, batchesRun,
                                      earlierKeys, lastBatchKeys>>
                  ELSE /\ f_pc' = "loop"
                       /\ executedQueries' = SearchAddAll(executedQueries, selected)
                       /\ followUpsUsed' = SearchUsedAfter(followUpsUsed, Len(selected),
                                                           maxTotal)
                       /\ batchesRun' = Bump(batchesRun)
                       /\ earlierKeys' = earlierKeys \cup lastBatchKeys
                       /\ lastBatchKeys' = BatchKeys(selected)
    /\ UNCHANGED <<site, maxFollowupSteps, autoFollowup, planQueries, additionalRounds,
                   nonFollowupVars>>

FollowupInit ==
    /\ f_pc = "start"
    /\ site \in {"coordinator", "deep", "search"}
    /\ maxFollowupSteps \in {Unset} \cup {Given(k) : k \in (-1)..MaxFollowup}
    /\ autoFollowup \in BOOLEAN
    /\ planQueries \in PlanSamples
    /\ executedQueries = {}
    /\ additionalRounds = 0
    /\ followUpsUsed = 0
    /\ evalCalls = 0
    /\ batchesRun = 0
    /\ earlierKeys = {}
    /\ lastBatchKeys = {}
    /\ lastRound = [ran |-> FALSE]

FollowupNext ==
    \/ OrchestratorStart
    \/ OrchestratorExit
    \/ GapRound
    \/ SearchStart
    \/ SearchExit
    \/ SearchRound

InitFollowup == FollowupInit /\ RunnerIdle /\ RecursionIdle /\ AnalyzeIdle /\ MergeIdle /\ BodyIdle /\ PlannerIdle /\ FactCheckIdle /\ RetryIdle /\ SummarizerIdle /\ ExecutorIdle /\ ConstructorIdle /\ SearchLoopIdle /\ ExpansionIdle /\ StepIdsIdle /\ SharedIdle

SpecFollowup == InitFollowup /\ [][FollowupNext]_vars

\* Every model and search call returns, so a loop that can take a step
\* eventually takes it.
SpecFollowupFair == SpecFollowup /\ WF_vars(FollowupNext)

\* ------------------------------------------------------------------------
\* Properties of the follow-up loops
\* ------------------------------------------------------------------------

AtSynthesis == f_pc = "synthesis"

\* C5: in the sub-agent orchestrators no step of a follow-up batch has a
\* query whose normalized form equals that of the query of a step run in an
\* earlier batch or round.
C5_NoQueryReExecuted ==
    (IsOrchestrator /\ batchesRun >= 1) => lastBatchKeys \cap earlierKeys = {}

\* C5 witness: a second follow-up batch has run after a round whose
\* proposals included already executed queries.
C5_Witness ==
    /\ IsOrchestrator
    /\ batchesRun = 2
    /\ lastRound.ran
    /\ lastRound.created >= 1
    /\ lastBatchKeys # {}
    /\ Cardinality(earlierKeys) >= 2

\* C39: in the follow-up loop of the search command no follow-up search uses
\* a query that, after trimming, collapsing whitespace and lowercasing,
\* equals a query executed for the plan or in an earlier round.
C39_ExecutedQueryNeverSearchedAgain ==
    (site = "search" /\ batchesRun >= 1) => lastBatchKeys \cap earlierKeys = {}

\* C6: in every round that the model reports gaps for, the number of new
\* steps equals the number of proposals with a non-empty, not yet executed
\* query, every new step is executed, and the executed-query set grows by
\* one entry per new step.
C6_OneEntryPerNewStep ==
    (IsOrchestrator /\ lastRound.ran /\ lastRound.needsMore) =>
        /\ lastRound.created = lastRound.eligible
        /\ lastRound.executed = lastRound.created
        /\ lastRound.grew = lastRound.created

\* C7: the orchestrators run at most maxFollowupSteps follow-up rounds (gap
\* evaluation plus batch); with 0 there is no gap evaluation and no batch;
\* a round without gaps, or whose proposals are all filtered out, runs no
\* batch and ends the loop.
C7_RoundsBounded ==
    IsOrchestrator =>
        /\ maxFollowupSteps.given =>
              /\ batchesRun <= Max(0, maxFollowupSteps.value)
              /\ evalCalls <= Max(0, maxFollowupSteps.value)
        /\ maxFollowupSteps = Given(0) => (evalCalls = 0 /\ batchesRun = 0)
        /\ (lastRound.ran /\ (~lastRound.needsMore \/ lastRound.created = 0)) =>
              (AtSynthesis /\ batchesRun = lastRound.batchesBefore)

\* C7 witness: the ceiling stopped the loop after as many batches as allowed.
C7_Witness ==
    /\ IsOrchestrator
    /\ AtSynthesis
    /\ maxFollowupSteps.given
    /\ maxFollowupSteps.value >= 2
    /\ batchesRun = maxFollowupSteps.value
    /\ evalCalls = maxFollowupSteps.value

DEFAULT_MAX_RECURSION_DEPTH == 2

\* sub-agent.ts:17
HARD_MAX_RECURSION_DEPTH == 5

\* sub-agent.ts:13
HARD_MAX_SEARCH_ROUNDS == 50

\* sub-agent.ts:541: .slice(0, 2)
MaxSubTopicsPerLevel == 2

\* Largest raw maxRecursionDepth tried (above the hard ceiling).
MaxRawDepth == 6

\* The maxSearchRounds values the top-level agent is configured with.
RootSearchRounds == {1, 3}

\* part_003:27-31 envNonNegativeInt; env is Unset when the variable is
\* missing or is not an integer.
envNonNegativeInt(env, defaultValue) ==
    IF env.given THEN (IF env.value < 0 THEN defaultValue ELSE env.value)
    ELSE defaultValue

\* sub-agent.ts:170-173
ClampRecursionDepth(option, env) ==
    LET rawMaxDepth == IF option.given THEN option.value
                       ELSE envNonNegativeInt(env, DEFAULT_MAX_RECURSION_DEPTH)
    IN Min(Max(0, rawMaxDepth), HARD_MAX_RECURSION_DEPTH)

\* sub-agent.ts:154-157 for a finite value
ClampSearchRounds(rawMaxRounds) == Min(Max(1, rawMaxRounds), HARD_MAX_SEARCH_ROUNDS)

\* Variant of MayRecurse with an inclusive comparison.
MayRecurseInclusive(currentDepth, maxRecursionDepth) == currentDepth <= maxRecursionDepth

\* sub-agent.ts:287 (and 514): if (this.currentDepth < this.maxRecursionDepth)
MayRecurse(currentDepth, maxRecursionDepth) == currentDepth < maxRecursionDepth

\* sub-agent.ts:109-174: the fields of a constructed agent that matter for
\* recursion, plus the position of its research() invocation.
Agent(depthOpt, maxDepthOpt, maxDepthEnvVar, rounds) ==
    [currentDepth |-> IF depthOpt.given THEN depthOpt.value ELSE 0,
     maxRecursionDepth |-> ClampRecursionDepth(maxDepthOpt, maxDepthEnvVar),
     maxSearchRounds |-> ClampSearchRounds(rounds),
     stage |-> "body",
     subTopics |-> 0,
     nextChild |-> 1]

\* sub-agent.ts:298-311: the child agent of a frame.
ChildAgent(parent) ==
    Agent(Given(parent.currentDepth + 1), Given(parent.maxRecursionDepth), Unset,
          Max(1, parent.maxSearchRounds - 1))

Top(stk) == stk[Len(stk)]

Pop(stk) == SubSeq(stk, 1, Len(stk) - 1)

\* sub-agent.ts:298-324: construct the child agent for the next sub-topic
\* and call its research(); the parent waits for it.
PushChild(stk) ==
    LET parent == Top(stk)
    IN Append([stk EXCEPT ![Len(stk)].stage = "awaitChild"], ChildAgent(parent))

\* sub-agent.ts:339-346 and 321-334: the running invocation settles; its
\* parent (if any) resumes after the await, in the try or in the catch.
Settle(stk) ==
    IF Len(stk) = 1 THEN <<>>
    ELSE [Pop(stk) EXCEPT ![Len(stk) - 1].stage = "childSettled"]

\* A caller constructs the top-level agent and calls research(step).
StartResearch ==
    /\ d_pc = "config"
    /\ stack' = <<Agent(Unset, maxDepthOption, maxDepthEnv, rootRounds)>>
    /\ deepest' = 0
    /\ d_pc' = "running"
    /\ researchCalls' = 1
    /\ UNCHANGED <<maxDepthOption, maxDepthEnv, rootRounds, identifyCalls, childStarts>>
    /\ UNCHANGED nonRecursionVars

\* sub-agent.ts:200-281: a search or the analysis call rejects, so this
\* research() rejects; a parent catches it (333) and continues.
ResearchThrows ==
    /\ d_pc = "running"
    /\ Top(stack).stage = "body"
    /\ stack' = Settle(stack)
    /\ d_pc' = IF Len(stack) = 1 THEN "failed" ELSE d_pc
    /\ UNCHANGED <<maxDepthOption, maxDepthEnv, rootRounds, deepest, identifyCalls, childStarts,
                   researchCalls>>
    /\ UNCHANGED nonRecursionVars

\* sub-agent.ts:279-289, 514-535: the analysis resolves; if depth allows,
\* the sub-topic identification call is made, else the report is returned.
ResearchAnalyzed ==
    /\ d_pc = "running"
    /\ Top(stack).stage = "body"
    /\ IF MayRecurse(Top(stack).currentDepth, Top(stack).maxRecursionDepth)
       THEN /\ stack' = [stack EXCEPT ![Len(stack)].stage = "identifying"]
            /\ identifyCalls' = TRUE
            /\ d_pc' = d_pc
       ELSE /\ stack' = Settle(stack)
            /\ identifyCalls' = identifyCalls
            /\ d_pc' = IF Len(stack) = 1 THEN "done" ELSE d_pc
    /\ UNCHANGED <<maxDepthOption, maxDepthEnv, rootRounds, deepest, childStarts,
                   researchCalls>>
    /\ UNCHANGED nonRecursionVars

\* Variant of KeptSubTopics that keeps every sub-topic suggested.
KeptSubTopicsAll(suggested) == suggested

\* sub-agent.ts:539-541: .filter(...).slice(0, 2)
KeptSubTopics(suggested) == Min(suggested, MaxSubTopicsPerLevel)

\* sub-agent.ts:535-553 and 291-324: the model suggests `suggested` usable
\* sub-topics (0 also stands for a failed or unparsable answer); at most
\* two are kept and the first child research is started.
IdentifyAnswer ==
    /\ d_pc = "running"
    /\ Top(stack).stage = "identifying"
    /\ \E suggested \in 0..(MaxSubTopicsPerLevel + 1) :
         LET kept == KeptSubTopics(suggested)
             withTopics == [stack EXCEPT ![Len(stack)].subTopics = kept,
                                         ![Len(stack)].nextChild = 1]
         IN IF kept > 0
            THEN /\ stack' = PushChild(withTopics)
                 /\ deepest' = Max(deepest, Top(stack).currentDepth + 1)
                 /\ childStarts' = TRUE
                 /\ researchCalls' = researchCalls + 1
                 /\ d_pc' = d_pc
            ELSE /\ stack' = Settle(withTopics)
                 /\ deepest' = deepest
                 /\ childStarts' = childStarts
                 /\ researchCalls' = researchCalls
                 /\ d_pc' = IF Len(stack) = 1 THEN "done" ELSE d_pc
    /\ UNCHANGED <<maxDepthOption, maxDepthEnv, rootRounds, identifyCalls>>
    /\ UNCHANGED nonRecursionVars

\* sub-agent.ts:294, 321-346: a child research resolved or rejected; the
\* loop goes to the next sub-topic or, after the last, the report is returned.
ChildSettled ==
    /\ d_pc = "running"
    /\ Top(stack).stage = "childSettled"
    /\ IF Top(stack).nextChild < Top(stack).subTopics
       THEN /\ stack' = PushChild([stack EXCEPT ![Len(stack)].nextChild = @ + 1])
            /\ researchCalls' = researchCalls + 1
            /\ d_pc' = d_pc
       ELSE /\ stack' = Settle(stack)
            /\ researchCalls' = researchCalls
            /\ d_pc' = IF Len(stack) = 1 THEN "done" ELSE d_pc
    /\ UNCHANGED <<maxDepthOption, maxDepthEnv, rootRounds, deepest, identifyCalls, childStarts>>
    /\ UNCHANGED nonRecursionVars

RecursionInit ==
    /\ d_pc = "config"
    /\ maxDepthOption \in {Unset} \cup {Given(v) : v \in (-1)..MaxRawDepth}
    /\ maxDepthEnv \in {Unset, Given(-1), Given(0), Given(MaxRawDepth)}
    /\ rootRounds \in RootSearchRounds
    /\ stack = <<>>
    /\ deepest = 0
    /\ identifyCalls = FALSE
    /\ childStarts = FALSE
    /\ researchCalls = 0

RecursionNext ==
    \/ StartResearch
    \/ ResearchThrows
    \/ ResearchAnalyzed
    \/ IdentifyAnswer
    \/ ChildSettled

InitRecursion == RecursionInit /\ RunnerIdle /\ FollowupIdle /\ AnalyzeIdle /\ MergeIdle /\ BodyIdle /\ PlannerIdle /\ FactCheckIdle /\ RetryIdle /\ SummarizerIdle /\ ExecutorIdle /\ ConstructorIdle /\ SearchLoopIdle /\ ExpansionIdle /\ StepIdsIdle /\ SharedIdle

SpecRecursion == InitRecursion /\ [][RecursionNext]_vars

\* The configured maximum depth D, after clamping to 0..5.
ConfiguredMaxDepth ==
    LET raw == IF maxDepthOption.given THEN maxDepthOption.value
               ELSE IF maxDepthEnv.given /\ maxDepthEnv.value >= 0 THEN maxDepthEnv.value
               ELSE 2
    IN IF raw < 0 THEN 0 ELSE IF raw > 5 THEN 5 ELSE raw

\* C9: no research() invocation runs at a depth greater than the configured
\* maximum depth D (clamped to 0..5), and with D = 0 the depth-0 agent
\* makes no sub-topic identification call and starts no child research.
C9_DepthNeverExceedsMax ==
    /\ deepest <= ConfiguredMaxDepth
    /\ \A i \in 1..Len(stack) : stack[i].currentDepth <= ConfiguredMaxDepth
    /\ ConfiguredMaxDepth = 0 => (~identifyCalls /\ ~childStarts /\ Len(stack) <= 1)

\* A run configured above the hard ceiling finished after recursing down to
\* depth 5 exactly.
C9_Witness ==
    /\ d_pc = "done"
    /\ maxDepthOption.given
    /\ IF maxDepthOption.given THEN maxDepthOption.value > 5 ELSE FALSE
    /\ deepest = 5
    /\ childStarts

\* 2^n
RECURSIVE PowerOfTwo(_)
PowerOfTwo(n) == IF n = 0 THEN 1 ELSE 2 * PowerOfTwo(n - 1)

\* C32: each research() starts at most 2 child agents, one after the
\* other; a child runs at depth parent + 1 with maxSearchRounds =
\* max(1, parent's maxSearchRounds - 1) and the parent's maxRecursionDepth;
\* one top-level step causes at most 2^(D+1) - 1 research() invocations.
C32_AtMostTwoChildrenPerLevel ==
    /\ researchCalls <= PowerOfTwo(ConfiguredMaxDepth + 1) - 1
    /\ \A i \in 1..Len(stack) :
         /\ stack[i].subTopics <= 2
         /\ stack[i].nextChild <= Max(1, stack[i].subTopics)
         /\ stack[i].maxRecursionDepth = ConfiguredMaxDepth
         /\ i > 1 =>
              /\ stack[i - 1].stage = "awaitChild"
              /\ stack[i].currentDepth = stack[i - 1].currentDepth + 1
              /\ stack[i].maxSearchRounds = Max(1, stack[i - 1].maxSearchRounds - 1)
         /\ i < Len(stack) => stack[i].stage = "awaitChild"

\* With D = 3 every research() found two sub-topics: 15 invocations.
C32_Witness ==
    /\ d_pc = "done"
    /\ ConfiguredMaxDepth = 3
    /\ rootRounds = 3
    /\ researchCalls = 15

\* ------------------------------------------------------------------------
\* Part 4: SubResearchAgent.analyzeSources (src/src/agent/sub-agent.ts:392-434)
\* Strings are represented by their lengths; a context part is the header
\* "[Source i] title\nURL: url\n" followed by the sliced text.
\* ------------------------------------------------------------------------

\* Longest list of sources tried.
MaxSources == 3

\* Largest maxTotalSourceChars tried.
MaxBudget == 6

\* sub-agent.ts:410: characters of "[Source " + "] " + "\nURL: " + "\n"
HeaderFixedChars == 17

\* sub-agent.ts:418: characters of "\n\n---\n\n"
SeparatorChars == 7

\* The sources tried: text length, title length, URL length, and whether the
\* URL is in expandedUrls.
SourceSamples ==
    {[textLen |-> 0, titleLen |-> 1, urlLen |-> 2, expanded |-> FALSE],
     [textLen |-> 2, titleLen |-> 0, urlLen |-> 2, expanded |-> FALSE],
     [textLen |-> 5, titleLen |-> 1, urlLen |-> 2, expanded |-> FALSE],
     [textLen |-> 2, titleLen |-> 1, urlLen |-> 3, expanded |-> TRUE],
     [textLen |-> 5, titleLen |-> 1, urlLen |-> 3, expanded |-> TRUE]}

SourceLists == UNION {[1..n -> SourceSamples] : n \in 0..MaxSources}

\* The per-source caps tried (sourceTextChars, expandedTextChars).
SourceTextCharsSamples == {-1, 2, 4}

ExpandedTextCharsSamples == {3, 6}

\* Length of the decimal numeral of n, for 1 <= n < 100.
Digits(n) == IF n < 10 THEN 1 ELSE 2

\* sub-agent.ts:393-397 sliceText, on lengths
sliceText(inputLen, maxChars) ==
    IF maxChars <= 0 THEN 0
    ELSE IF inputLen <= maxChars THEN inputLen
    ELSE maxChars

\* sub-agent.ts:399-400: the budget at loop entry; Unset stands for Infinity.
InitialRemaining(maxTotal) ==
    IF maxTotal.given THEN Given(Max(0, maxTotal.value)) ELSE Unset

\* sub-agent.ts:406
PerSourceCap(s, textChars, expandedChars) ==
    IF s.expanded THEN expandedChars ELSE textChars

\* Variant of BudgetCap that ignores what is left of the budget.
BudgetCapIgnoresRemaining(perSourceCap, rem) == perSourceCap

\* sub-agent.ts:407
BudgetCap(perSourceCap, rem) ==
    IF rem.given THEN Min(perSourceCap, rem.value) ELSE perSourceCap

\* sub-agent.ts:410: one context part for the source at (1-based) position i.
ContextPart(i, s, contentLen) ==
    [content |-> contentLen,
     chars |-> HeaderFixedChars + Digits(i) + s.titleLen + s.urlLen + contentLen]

\* Variant of RemainingAfter that does not charge the part to the budget.
RemainingAfterUncharged(rem, contentLen) == rem

\* sub-agent.ts:412-415: the budget after a part, and whether the loop stops.
RemainingAfter(rem, contentLen) ==
    IF rem.given THEN Given(Max(0, rem.value - contentLen)) ELSE Unset

RECURSIVE SumChars(_)
SumChars(ps) == IF ps = <<>> THEN 0 ELSE ps[1].chars + SumChars(Tail(ps))

\* sub-agent.ts:418: length of parts.join('\n\n---\n\n')
JoinedLength(ps) ==
    IF ps = <<>> THEN 0 ELSE SumChars(ps) + SeparatorChars * (Len(ps) - 1)

\* sub-agent.ts:392-400: analyzeSources is entered and the budget is set.
AnalyzeStart ==
    /\ a_pc = "config"
    /\ remaining' = InitialRemaining(maxTotalSourceChars)
    /\ a_pc' = IF allSources = <<>> THEN "join" ELSE "loop"
    /\ UNCHANGED <<allSources, sourceTextChars, expandedTextChars, maxTotalSourceChars,
                   sourceContextParts, sourceContext>>
    /\ UNCHANGED nonAnalyzeVars

\* sub-agent.ts:403-416: one iteration of the loop over the sources.
AnalyzeSource ==
    /\ a_pc = "loop"
    /\ LET i == Len(sourceContextParts) + 1
           s == allSources[i]
           perSourceCap == PerSourceCap(s, sourceTextChars, expandedTextChars)
           cap == BudgetCap(perSourceCap, remaining)
           content == sliceText(s.textLen, cap)
           left == RemainingAfter(remaining, content)
           exhausted == IF left.given THEN left.value <= 0 ELSE FALSE
       IN /\ sourceContextParts' = Append(sourceContextParts, ContextPart(i, s, content))
          /\ remaining' = left
          /\ a_pc' = IF exhausted \/ i = Len(allSources) THEN "join" ELSE "loop"
    /\ UNCHANGED <<allSources, sourceTextChars, expandedTextChars, maxTotalSourceChars,
                   sourceContext>>
    /\ UNCHANGED nonAnalyzeVars

\* sub-agent.ts:418-431: the parts are joined and sent to the model.
AnalyzeSend ==
    /\ a_pc = "join"
    /\ sourceContext' = Given(JoinedLength(sourceContextParts))
    /\ a_pc' = "sent"
    /\ UNCHANGED <<allSources, sourceTextChars, expandedTextChars, maxTotalSourceChars,
                   remaining, sourceContextParts>>
    /\ UNCHANGED nonAnalyzeVars

AnalyzeInit ==
    /\ a_pc = "config"
    /\ allSources \in SourceLists
    /\ sourceTextChars \in SourceTextCharsSamples
    /\ expandedTextChars \in ExpandedTextCharsSamples
    /\ maxTotalSourceChars \in {Unset} \cup {Given(c) : c \in (-1)..MaxBudget}
    /\ remaining = Unset
    /\ sourceContextParts = <<>>
    /\ sourceContext = Unset

AnalyzeNext ==
    \/ AnalyzeStart
    \/ AnalyzeSource
    \/ AnalyzeSend

InitAnalyze == AnalyzeInit /\ RunnerIdle /\ FollowupIdle /\ RecursionIdle /\ MergeIdle /\ BodyIdle /\ PlannerIdle /\ FactCheckIdle /\ RetryIdle /\ SummarizerIdle /\ ExecutorIdle /\ ConstructorIdle /\ SearchLoopIdle /\ ExpansionIdle /\ StepIdsIdle /\ SharedIdle

SpecAnalyze == InitAnalyze /\ [][AnalyzeNext]_vars

\* The context was sent under a finite budget.
SentWithBudget == a_pc = "sent" /\ maxTotalSourceChars.given

\* Characters of the context that are not source text: the header lines of
\* the included sources and the separators between them.
RECURSIVE HeaderChars(_)
HeaderChars(n) ==
    IF n = 0 THEN 0
    ELSE 17 + Digits(n) + allSources[n].titleLen + allSources[n].urlLen + HeaderChars(n - 1)

ContextOverhead ==
    LET n == Len(sourceContextParts)
    IN IF n = 0 THEN 0 ELSE HeaderChars(n) + 7 * (n - 1)

\* C10 as stated: under a finite budget C the whole source context string
\* is at most C characters long.
C10_ContextWithinBudget ==
    SentWithBudget =>
        (IF sourceContext.given THEN sourceContext.value <= Max(0, maxTotalSourceChars.value)
         ELSE FALSE)

\* C10 amended: under a finite budget C the source context is at most C
\* characters plus the header lines and separators of the included sources
\* (only the source text is budgeted), only the last included source can be
\* cut short by the budget, and a first source is always included.
C10_ContextWithinBudgetPlusHeaders ==
    SentWithBudget =>
        /\ IF sourceContext.given
           THEN sourceContext.value <= Max(0, maxTotalSourceChars.value) + ContextOverhead
           ELSE FALSE
        /\ \A i \in 1..Len(sourceContextParts) :
             LET own == sliceText(allSources[i].textLen,
                                  IF allSources[i].expanded THEN expandedTextChars
                                  ELSE sourceTextChars)
             IN sourceContextParts[i].content < own => i = Len(sourceContextParts)
        /\ allSources # <<>> => Len(sourceContextParts) >= 1

\* A context was sent whose second source was cut short by the budget and
\* whose third source was left out, and which is longer than the budget.
C10_Witness ==
    /\ SentWithBudget
    /\ Len(allSources) = 3
    /\ Len(sourceContextParts) = 2
    /\ sourceContextParts[1].content > 0
    /\ sourceContextParts[2].content > 0
    /\ sourceContextParts[2].content < allSources[2].textLen
    /\ sourceContextParts[2].content <
         (IF allSources[2].expanded THEN expandedTextChars ELSE sourceTextChars)
    /\ IF sourceContext.given /\ maxTotalSourceChars.given
       THEN sourceContext.value > maxTotalSourceChars.value
       ELSE FALSE

\* Characters of source text in the first n context parts.
RECURSIVE TextTaken(_)
TextTaken(n) == IF n = 0 THEN 0 ELSE sourceContextParts[n].content + TextTaken(n - 1)

\* The loop over the sources has started under a finite budget.
LoopedWithBudget == a_pc \in {"loop", "join", "sent"} /\ maxTotalSourceChars.given

\* What is left of the budget when the source at position i is reached.
BudgetBefore(i) == Max(0, maxTotalSourceChars.value) - TextTaken(i - 1)

\* C40 as stated: under a finite budget C the text portions taken add up to
\* at most C, each portion is at most its source's per-source cap, and no
\* source is added when nothing is left of the budget.
C40_TextWithinBudget ==
    LoopedWithBudget =>
        /\ TextTaken(Len(sourceContextParts)) <= maxTotalSourceChars.value
        /\ \A i \in 1..Len(sourceContextParts) :
             /\ sourceContextParts[i].content
                   <= PerSourceCap(allSources[i], sourceTextChars, expandedTextChars)
             /\ BudgetBefore(i) > 0

\* C40 amended: under a finite budget C the text portions taken add up to
\* at most max(0, C), each portion is at most max(0, its per-source cap),
\* and after the first source no source is added when nothing is left of
\* the budget; the first source is always added, with an empty portion if
\* the budget is 0 or less.
C40_TextWithinNonNegativeBudget ==
    LoopedWithBudget =>
        /\ TextTaken(Len(sourceContextParts)) <= Max(0, maxTotalSourceChars.value)
        /\ \A i \in 1..Len(sourceContextParts) :
             /\ sourceContextParts[i].content
                   <= Max(0, PerSourceCap(allSources[i], sourceTextChars, expandedTextChars))
             /\ i > 1 => BudgetBefore(i) > 0
        /\ (a_pc = "loop" /\ sourceContextParts # <<>>)
              => BudgetBefore(Len(sourceContextParts) + 1) > 0
        /\ (maxTotalSourceChars.value <= 0 /\ sourceContextParts # <<>>)
              => /\ Len(sourceContextParts) = 1
                 /\ sourceContextParts[1].content = 0

\* C40 witness: of three sources the first was cut to its per-source cap,
\* the second got exactly what was left of the budget and the third was
\* not added.
C40_Witness ==
    /\ a_pc = "sent"
    /\ maxTotalSourceChars.given
    /\ Len(allSources) = 3
    /\ Len(sourceContextParts) = 2
    /\ sourceContextParts[1].content
          = PerSourceCap(allSources[1], sourceTextChars, expandedTextChars)
    /\ sourceContextParts[1].content < allSources[1].textLen
    /\ sourceContextParts[2].content > 0
    /\ sourceContextParts[2].content < allSources[2].textLen
    /\ TextTaken(2) = maxTotalSourceChars.value

\* ------------------------------------------------------------------------
\* Part 5: mergeResult (src/src/agent/sub-agent.ts:193-212)
\* Strings are sequences of characters; an optional field is Unset when the
\* record has no such key.
\* ------------------------------------------------------------------------

\* Most results merged in one run.
MaxMerges == 3

uA == <<"u">>

uAPadded == <<" ", "u">>

uB == <<"v">>

SearchResult(url, title, date, text, abstract, highlights, score) ==
    [url |-> url, title |-> title, publishedDate |-> date, text |-> text,
     summary |-> abstract, highlights |-> highlights, score |-> score]

\* The search results tried (part_012:70-80 ExaSearchResult).
ResultSamples ==
    {SearchResult(uA, "T1", Unset, Given(<<"a", "b">>), Given(<<"s">>),
                  Given(<<"h1">>), Given(2)),
     SearchResult(uA, "T2", Given("2024"), Given(<<"c", "d">>), Unset,
                  Given(<<"h1", "h2">>), Given(5)),
     SearchResult(uA, "T1", Given("2023"), Unset, Given(<<"s", "t">>),
                  Unset, Given(-1)),
     SearchResult(uA, "T1", Unset, Given(<<>>), Given(<<>>), Given(<<>>), Unset),
     SearchResult(uAPadded, "T3", Unset, Given(<<"a", "b", "c">>), Given(<<"z">>),
                  Given(<<"h3">>), Given(-2)),
     SearchResult(uB, "T4", Unset, Given(<<"a">>), Unset, Unset, Given(1)),
     SearchResult(<<" ">>, "T5", Unset, Given(<<"a">>), Unset, Unset, Given(9))}

\* x?.length || 0
OptLen(field) == IF field.given THEN Len(field.value) ELSE 0

\* x ?? 0
OrZero(field) == IF field.given THEN field.value ELSE 0

\* { ...existing, ...next }: a key of next overrides, a missing key does not.
Spread(existingField, nextField) ==
    IF nextField.given THEN nextField ELSE existingField

\* Variant of PickLonger that always takes the incoming value when it has one.
PickNext(existingField, nextField) ==
    IF nextField.given THEN nextField ELSE existingField

\* sub-agent.ts:205-209: next.f && next.f.length > (existing.f?.length || 0)
\*                        ? next.f : existing.f
PickLonger(existingField, nextField) ==
    IF nextField.given /\ OptLen(nextField) > 0 /\ OptLen(nextField) > OptLen(existingField)
    THEN nextField ELSE existingField

\* Variant of MergedScore that keeps the stored score.
MergedScoreFirst(existingScore, nextScore) == Given(OrZero(existingScore))

\* Variant of MergedScore that adds the scores up.
MergedScoreSum(existingScore, nextScore) ==
    Given(OrZero(existingScore) + OrZero(nextScore))

\* sub-agent.ts:210: Math.max(existing.score ?? 0, next.score ?? 0)
MergedScore(existingScore, nextScore) ==
    Given(Max(OrZero(existingScore), OrZero(nextScore)))

\* sub-agent.ts:194-211
mergeResult(map, next) ==
    LET url == trim(next.url)
    IN IF url = <<>> THEN map
       ELSE IF url \notin DOMAIN map
       THEN [k \in DOMAIN map \cup {url} |-> IF k = url THEN next ELSE map[k]]
       ELSE LET existing == map[url]
                merged == [url |-> next.url,
                           title |-> next.title,
                           publishedDate |-> Spread(existing.publishedDate, next.publishedDate),
                           text |-> PickLonger(existing.text, next.text),
                           summary |-> PickLonger(existing.summary, next.summary),
                           highlights |-> PickLonger(existing.highlights, next.highlights),
                           score |-> MergedScore(existing.score, next.score)]
            IN [map EXCEPT ![url] = merged]

\* sub-agent.ts:240: searchResponse.results.forEach(mergeResult), one result.
MergeResult ==
    /\ g_pc = "merging"
    /\ Len(mergeLog) < MaxMerges
    /\ \E next \in ResultSamples :
         /\ mergedByUrl' = mergeResult(mergedByUrl, next)
         /\ mergeLog' = Append(mergeLog, next)
    /\ UNCHANGED g_pc
    /\ UNCHANGED nonMergeVars

\* sub-agent.ts:193: const mergedByUrl = new Map()
MergeInit ==
    /\ g_pc = "merging"
    /\ mergedByUrl = <<>>
    /\ mergeLog = <<>>

MergeNext == MergeResult

InitMerge == MergeInit /\ RunnerIdle /\ FollowupIdle /\ RecursionIdle /\ AnalyzeIdle /\ BodyIdle /\ PlannerIdle /\ FactCheckIdle /\ RetryIdle /\ SummarizerIdle /\ ExecutorIdle /\ ConstructorIdle /\ SearchLoopIdle /\ ExpansionIdle /\ StepIdsIdle /\ SharedIdle

SpecMerge == InitMerge /\ [][MergeNext]_vars

\* The results merged so far whose trimmed URL is url, in merge order.
MergedInto(url) == SelectSeq(mergeLog, LAMBDA r : trim(r.url) = url)

RECURSIVE MaxOf(_, _)
\* Greatest value of Measure over a non-empty sequence of results.
MaxOf(Measure(_), rs) ==
    IF Len(rs) = 1 THEN Measure(rs[1])
    ELSE Max(Measure(rs[1]), MaxOf(Measure, Tail(rs)))

TextLength(r) == OptLen(r.text)

SummaryLength(r) == OptLen(r.summary)

HighlightsCount(r) == OptLen(r.highlights)

ScoreOf(r) == OrZero(r.score)

RECURSIVE MergeAll(_, _)
\* The map after merging the results of rs, in order, into map.
MergeAll(map, rs) ==
    IF rs = <<>> THEN map ELSE MergeAll(mergeResult(map, Head(rs)), Tail(rs))

\* C11: after merging results that share a URL, the stored record's text
\* length, summary length and highlights count are the maxima over the
\* merged inputs, and its score is the greatest input score (inputs carry a
\* score, as ExaSearchResult declares).
C11_MergedKeepsMaxima ==
    \A url \in DOMAIN mergedByUrl :
        LET stored == mergedByUrl[url]
            inputs == MergedInto(url)
        IN /\ inputs # <<>>
           /\ TextLength(stored) = MaxOf(TextLength, inputs)
           /\ SummaryLength(stored) = MaxOf(SummaryLength, inputs)
           /\ HighlightsCount(stored) = MaxOf(HighlightsCount, inputs)
           /\ (\A i \in 1..Len(inputs) : inputs[i].score.given) =>
                 stored.score = Given(MaxOf(ScoreOf, inputs))

\* Three results with one URL were merged; the longest text came second and
\* the greatest score came first or second, not last.
C11_Witness ==
    /\ Len(mergeLog) = 3
    /\ Len(MergedInto(uA)) = 3
    /\ \A i \in 1..3 : mergeLog[i].score.given
    /\ uA \in DOMAIN mergedByUrl
    /\ IF uA \in DOMAIN mergedByUrl
       THEN /\ mergedByUrl[uA].text = mergeLog[2].text
            /\ TextLength(mergeLog[2]) > TextLength(mergeLog[1])
            /\ TextLength(mergeLog[2]) > TextLength(mergeLog[3])
            /\ ScoreOf(mergedByUrl[uA]) > ScoreOf(mergeLog[3])
       ELSE FALSE

\* The last merged result shares its URL with an earlier one.
LastRepeatsUrl ==
    /\ Len(mergeLog) >= 2
    /\ trim(mergeLog[Len(mergeLog)].url) # <<>>
    /\ Len(MergedInto(trim(mergeLog[Len(mergeLog)].url))) >= 2

\* C12: once B has been merged into a record with the same URL, merging B
\* again leaves the map exactly as it is.
C12_MergeIdempotent ==
    LastRepeatsUrl => mergeResult(mergedByUrl, mergeLog[Len(mergeLog)]) = mergedByUrl

\* A then B were merged under one URL, B differing from A in every field.
C12_Witness ==
    /\ Len(mergeLog) = 2
    /\ LastRepeatsUrl
    /\ mergeLog[1].title # mergeLog[2].title
    /\ mergeLog[1].text # mergeLog[2].text
    /\ mergeLog[1].highlights # mergeLog[2].highlights
    /\ mergeLog[1].score # mergeLog[2].score

\* Exactly two results were merged and they share their URL.
TwoMergedUnderOneUrl == Len(mergeLog) = 2 /\ LastRepeatsUrl

\* The length and score measures of every stored record.
Measures(map) ==
    [url \in DOMAIN map |->
        [text |-> TextLength(map[url]), summary |-> SummaryLength(map[url]),
         highlights |-> HighlightsCount(map[url]), score |-> ScoreOf(map[url])]]

\* C13 as stated: merging A then B stores the same record, in every field,
\* as merging B then A.
C13_MergeCommutative ==
    TwoMergedUnderOneUrl => mergedByUrl = MergeAll(<<>>, <<mergeLog[2], mergeLog[1]>>)

\* C13 amended: merging A then B and merging B then A store records with
\* the same text length, summary length, highlights count and score.
C13_MergeCommutativeInMeasures ==
    TwoMergedUnderOneUrl =>
        Measures(mergedByUrl) = Measures(MergeAll(<<>>, <<mergeLog[2], mergeLog[1]>>))

\* Two results with different titles and different texts of equal length
\* were merged: the stored record has the later title and the earlier text.
C13_Witness ==
    /\ TwoMergedUnderOneUrl
    /\ mergeLog[1].title # mergeLog[2].title
    /\ TextLength(mergeLog[1]) = TextLength(mergeLog[2])
    /\ mergeLog[1].text # mergeLog[2].text
    /\ uA \in DOMAIN mergedByUrl
    /\ IF uA \in DOMAIN mergedByUrl
       THEN /\ mergedByUrl[uA].title = mergeLog[2].title
            /\ mergedByUrl[uA].text = mergeLog[1].text
       ELSE FALSE

\* ------------------------------------------------------------------------
\* Part 6: the body of SubResearchAgent.research, one awaited call at a time
\* (src/src/agent/sub-agent.ts:179-347). Sources are ids, the summary is a
\* sequence of sections.
\* ------------------------------------------------------------------------

\* Largest maxSearchRounds tried.
MaxRounds == 2

\* How an awaited model call for an optional enhancement can come back:
\* usable, empty, malformed (unparsable or of the wrong shape), or thrown.
EnhancementAnswers == {"usable", "empty", "malformed", "throws"}

CallKinds == {"search", "suggest", "select", "contents", "analysis", "identify", "child"}

NoCalls == [k \in CallKinds |-> 0]

Count(calls, kind) == [calls EXCEPT ![kind] = @ + 1]

\* What a child research() resolves with (sub-agent.ts:340-346).
ChildReports ==
    {[summary |-> "child summary", sources |-> <<91>>, keyInsights |-> <<"child insight">>],
     [summary |-> "", sources |-> <<>>, keyInsights |-> <<>>]}

\* sub-agent.ts:254: whether the expansion step is entered.
ExpansionWanted(expand, found) == expand /\ found # <<>>

\* sub-agent.ts:243-261: where research() goes once the search loop is left.
AfterSearchLoop(expand, found) ==
    IF ExpansionWanted(expand, found) THEN "select" ELSE "analysis"

\* sub-agent.ts:339-346: the report research() resolves with.
FinalReport(sum, found, expanded, insights) ==
    Given([summary |-> sum, sources |-> found, expandedSources |-> expanded,
           keyInsights |-> SubSeq(insights, 1, Min(Len(insights), 10))])

bodyConfig == <<maxSearchRounds, expandSources, mayRecurse>>

\* research(step) is called; the first search is issued (sub-agent.ts:215-229).
BodyCall ==
    /\ b_pc = "config"
    /\ b_pc' = "search"
    /\ round' = 1
    /\ callsMade' = Count(callsMade, "search")
    /\ UNCHANGED <<bodyConfig, searchResults, expandedSources, summary, keyInsights,
                   subTopics, childIndex, failedCalls, rejectedBy, beforeChild,
                   childFailed, report>>
    /\ UNCHANGED nonBodyVars

\* sub-agent.ts:229-246: the search resolves, its results are merged; on
\* the last round the loop is left, otherwise a follow-up query is asked for.
SearchResolves ==
    /\ b_pc = "search"
    /\ \E found \in {<<>>, <<round * 10 + 1>>, <<round * 10 + 1, round * 10 + 2>>} :
         /\ searchResults' = searchResults \o found
         /\ IF round >= maxSearchRounds
            THEN /\ b_pc' = AfterSearchLoop(expandSources, searchResults')
                 /\ callsMade' = IF b_pc' = "select" THEN Count(callsMade, "select")
                                 ELSE Count(callsMade, "analysis")
            ELSE /\ b_pc' = "suggest"
                 /\ callsMade' = Count(callsMade, "suggest")
    /\ UNCHANGED <<bodyConfig, round, expandedSources, summary, keyInsights, subTopics,
                   childIndex, failedCalls, rejectedBy, beforeChild, childFailed, report>>
    /\ UNCHANGED nonBodyVars

\* sub-agent.ts:229: the search call rejects; nothing catches it.
SearchRejects ==
    /\ b_pc = "search"
    /\ b_pc' = "rejected"
    /\ rejectedBy' = "search"
    /\ failedCalls' = failedCalls \cup {"search"}
    /\ UNCHANGED <<bodyConfig, round, searchResults, expandedSources, summary, keyInsights,
                   subTopics, childIndex, callsMade, beforeChild, childFailed, report>>
    /\ UNCHANGED nonBodyVars

\* Variant of CatchEnhancement that lets a thrown error through.
CatchEnhancementRethrow(answer) ==
    IF answer = "usable" THEN "continue"
    ELSE IF answer = "throws" THEN "reject" ELSE "stop"

\* sub-agent.ts:355-386, 444-484, 518-553: the try/catch of the three
\* optional model calls; anything but a usable answer ends the enhancement.
CatchEnhancement(answer) ==
    IF answer = "usable" THEN "continue" ELSE "stop"

\* The call that follows the search loop is issued.
LeaveSearchLoop ==
    /\ b_pc' = AfterSearchLoop(expandSources, searchResults)
    /\ callsMade' = Count(callsMade, b_pc')

\* sub-agent.ts:244-249: the follow-up query suggestion comes back; an
\* unused query starts the next round, anything else ends the loop.
SuggestAnswers ==
    /\ b_pc = "suggest"
    /\ \E answer \in EnhancementAnswers \cup {"repeat"} :
         LET todo == IF answer = "repeat" THEN "stop" ELSE CatchEnhancement(answer)
         IN /\ failedCalls' = IF answer \in {"usable", "repeat"} THEN failedCalls
                              ELSE failedCalls \cup {"suggest"}
            /\ IF todo = "continue"
               THEN /\ round' = round + 1
                    /\ b_pc' = "search"
                    /\ callsMade' = Count(callsMade, "search")
                    /\ rejectedBy' = rejectedBy
               ELSE IF todo = "stop"
               THEN /\ LeaveSearchLoop
                    /\ UNCHANGED <<round, rejectedBy>>
               ELSE /\ b_pc' = "rejected"
                    /\ rejectedBy' = "suggest"
                    /\ UNCHANGED <<round, callsMade>>
    /\ UNCHANGED <<bodyConfig, searchResults, expandedSources, summary, keyInsights,
                   subTopics, childIndex, beforeChild, childFailed, report>>
    /\ UNCHANGED nonBodyVars

\* sub-agent.ts:257-263: the expansion-candidate selection comes back; with
\* at least one URL the pages are fetched, otherwise analysis starts.
SelectAnswers ==
    /\ b_pc = "select"
    /\ \E answer \in EnhancementAnswers :
         LET todo == CatchEnhancement(answer)
         IN /\ failedCalls' = IF answer = "usable" THEN failedCalls
                              ELSE failedCalls \cup {"select"}
            /\ b_pc' = IF todo = "continue" THEN "contents"
                       ELSE IF todo = "stop" THEN "analysis" ELSE "rejected"
            /\ callsMade' = IF todo = "reject" THEN callsMade ELSE Count(callsMade, b_pc')
            /\ rejectedBy' = IF todo = "reject" THEN "select" ELSE rejectedBy
    /\ UNCHANGED <<bodyConfig, round, searchResults, expandedSources, summary, keyInsights,
                   subTopics, childIndex, beforeChild, childFailed, report>>
    /\ UNCHANGED nonBodyVars

\* sub-agent.ts:261-279: getContents resolves; analysis starts.
ContentsResolves ==
    /\ b_pc = "contents"
    /\ \E read \in {<<>>, <<searchResults[1]>>} :
         expandedSources' = read
    /\ b_pc' = "analysis"
    /\ callsMade' = Count(callsMade, "analysis")
    /\ UNCHANGED <<bodyConfig, round, searchResults, summary, keyInsights, subTopics,
                   childIndex, failedCalls, rejectedBy, beforeChild, childFailed, report>>
    /\ UNCHANGED nonBodyVars

\* sub-agent.ts:262, part_012:267-270: getContents throws on a response that
\* is not ok, and research() awaits it outside any try block.
ContentsFailure == "rejected"

ContentsRejects ==
    /\ b_pc = "contents"
    /\ b_pc' = ContentsFailure
    /\ failedCalls' = failedCalls \cup {"contents"}
    /\ rejectedBy' = IF b_pc' = "rejected" THEN "contents" ELSE rejectedBy
    /\ callsMade' = IF b_pc' = "rejected" THEN callsMade ELSE Count(callsMade, b_pc')
    /\ UNCHANGED <<bodyConfig, round, searchResults, expandedSources, summary, keyInsights,
                   subTopics, childIndex, beforeChild, childFailed, report>>
    /\ UNCHANGED nonBodyVars

\* The data of the report under construction.
ReportData == [summary |-> summary, sources |-> searchResults, keyInsights |-> keyInsights]

\* sub-agent.ts:339-346: research() resolves.
Resolve(sum, found, insights) ==
    /\ b_pc' = "resolved"
    /\ report' = FinalReport(sum, found, expandedSources, insights)

\* sub-agent.ts:279-289: the analysis resolves with the summary, insights are
\* extracted from it; if depth allows sub-topics are asked for, otherwise
\* research() resolves.
AnalysisResolves ==
    /\ b_pc = "analysis"
    /\ \E insights \in {<<>>, <<"insight">>} :
         /\ summary' = <<"analysis">>
         /\ keyInsights' = insights
         /\ IF mayRecurse
            THEN /\ b_pc' = "identify"
                 /\ callsMade' = Count(callsMade, "identify")
                 /\ report' = report
            ELSE /\ Resolve(summary', searchResults, keyInsights')
                 /\ callsMade' = callsMade
    /\ UNCHANGED <<bodyConfig, round, searchResults, expandedSources, subTopics, childIndex,
                   failedCalls, rejectedBy, beforeChild, childFailed>>
    /\ UNCHANGED nonBodyVars

\* sub-agent.ts:279, 425-428: the analysis call rejects; nothing catches it.
AnalysisRejects ==
    /\ b_pc = "analysis"
    /\ b_pc' = "rejected"
    /\ rejectedBy' = "analysis"
    /\ failedCalls' = failedCalls \cup {"analysis"}
    /\ UNCHANGED <<bodyConfig, round, searchResults, expandedSources, summary, keyInsights,
                   subTopics, childIndex, callsMade, beforeChild, childFailed, report>>
    /\ UNCHANGED nonBodyVars

\* sub-agent.ts:289-324: the sub-topic identification comes back; with at
\* least one sub-topic the first child research is started.
IdentifyAnswers ==
    /\ b_pc = "identify"
    /\ \E answer \in EnhancementAnswers, topics \in 1..2 :
         LET todo == CatchEnhancement(answer)
         IN /\ failedCalls' = IF answer = "usable" THEN failedCalls
                              ELSE failedCalls \cup {"identify"}
            /\ IF todo = "continue"
               THEN /\ subTopics' = topics
                    /\ childIndex' = 1
                    /\ b_pc' = "child"
                    /\ callsMade' = Count(callsMade, "child")
                    /\ beforeChild' = ReportData
                    /\ UNCHANGED <<report, rejectedBy>>
               ELSE IF todo = "stop"
               THEN /\ Resolve(summary, searchResults, keyInsights)
                    /\ UNCHANGED <<subTopics, childIndex, callsMade, beforeChild, rejectedBy>>
               ELSE /\ b_pc' = "rejected"
                    /\ rejectedBy' = "identify"
                    /\ UNCHANGED <<subTopics, childIndex, callsMade, beforeChild, report>>
    /\ UNCHANGED <<bodyConfig, round, searchResults, expandedSources, summary, keyInsights,
                   childFailed>>
    /\ UNCHANGED nonBodyVars

\* sub-agent.ts:294-339: after a child settled, the loop starts the child of
\* the next sub-topic or, after the last one, research() resolves.
NextSubTopic(data) ==
    IF childIndex < subTopics
    THEN /\ childIndex' = childIndex + 1
         /\ b_pc' = "child"
         /\ callsMade' = Count(callsMade, "child")
         /\ report' = report
    ELSE /\ Resolve(data.summary, data.sources, data.keyInsights)
         /\ UNCHANGED <<childIndex, callsMade>>

\* sub-agent.ts:322-331: the child resolves and its findings are appended.
ChildResolves ==
    /\ b_pc = "child"
    /\ \E childReport \in ChildReports :
         /\ summary' = Append(summary, childReport.summary)
         /\ keyInsights' = keyInsights \o childReport.keyInsights
         /\ searchResults' = searchResults \o childReport.sources
    /\ beforeChild' = ReportData
    /\ childFailed' = FALSE
    /\ NextSubTopic([summary |-> summary', sources |-> searchResults',
                     keyInsights |-> keyInsights'])
    /\ UNCHANGED <<bodyConfig, round, expandedSources, subTopics, failedCalls, rejectedBy>>
    /\ UNCHANGED nonBodyVars

\* Variant of CatchChild that records the failure in the summary.
CatchChildNoted(data) == [data EXCEPT !.summary = Append(@, "sub-research failed")]

\* sub-agent.ts:332-335: catch { reportStatus(...) }, nothing else.
CatchChild(data) == data

\* sub-agent.ts:321-335: the child rejects; the catch block continues.
ChildRejects ==
    /\ b_pc = "child"
    /\ LET after == CatchChild(ReportData)
       IN /\ summary' = after.summary
          /\ searchResults' = after.sources
          /\ keyInsights' = after.keyInsights
          /\ NextSubTopic(after)
    /\ beforeChild' = ReportData
    /\ childFailed' = TRUE
    /\ failedCalls' = failedCalls \cup {"child"}
    /\ UNCHANGED <<bodyConfig, round, expandedSources, subTopics, rejectedBy>>
    /\ UNCHANGED nonBodyVars

BodyInit ==
    /\ b_pc = "config"
    /\ maxSearchRounds \in 1..MaxRounds
    /\ expandSources \in BOOLEAN
    /\ mayRecurse \in BOOLEAN
    /\ round = 0
    /\ searchResults = <<>>
    /\ expandedSources = <<>>
    /\ summary = <<>>
    /\ keyInsights = <<>>
    /\ subTopics = 0
    /\ childIndex = 0
    /\ callsMade = NoCalls
    /\ failedCalls = {}
    /\ rejectedBy = "none"
    /\ beforeChild = [summary |-> <<>>, sources |-> <<>>, keyInsights |-> <<>>]
    /\ childFailed = FALSE
    /\ report = Unset

BodyNext ==
    \/ BodyCall
    \/ SearchResolves
    \/ SearchRejects
    \/ SuggestAnswers
    \/ SelectAnswers
    \/ ContentsResolves
    \/ ContentsRejects
    \/ AnalysisResolves
    \/ AnalysisRejects
    \/ IdentifyAnswers
    \/ ChildResolves
    \/ ChildRejects

InitBody ==
    BodyInit /\ RunnerIdle /\ FollowupIdle /\ RecursionIdle /\ AnalyzeIdle /\ MergeIdle
             /\ PlannerIdle /\ FactCheckIdle
             /\ RetryIdle
             /\ SummarizerIdle
             /\ ExecutorIdle
             /\ ConstructorIdle
             /\ SearchLoopIdle
             /\ ExpansionIdle
             /\ StepIdsIdle
             /\ SharedIdle

SpecBody == InitBody /\ [][BodyNext]_vars

\* The three optional model calls of research().
Enhancements == {"suggest", "select", "identify"}

C15_ExpansionFailureTolerated ==
    "contents" \in failedCalls =>
        /\ b_pc # "rejected"
        /\ b_pc = "resolved" =>
              (IF report.given THEN report.value.expandedSources = <<>> ELSE FALSE)

\* C16: when a child research throws, the parent's summary, sources and
\* insights are what they were when that child was started, the remaining
\* sub-topics are still researched and the parent's research() resolves.
C16_ChildFailureLeavesParentIntact ==
    /\ childFailed => ReportData = beforeChild
    /\ "child" \in failedCalls => b_pc \in {"child", "resolved"}
    /\ (b_pc = "resolved" /\ subTopics > 0) => callsMade["child"] = subTopics
    /\ (b_pc = "child") => callsMade["child"] = childIndex

\* The first of two children threw, the second resolved and was appended,
\* and research() resolved.
C16_Witness ==
    /\ b_pc = "resolved"
    /\ subTopics = 2
    /\ "child" \in failedCalls
    /\ ~childFailed
    /\ Len(summary) = 2
    /\ callsMade["child"] = 2

\* C33: the sources of every report research() returns hold no source (no
\* URL) twice, also after the sources of child reports were added.
C33_ReportSourcesDistinct ==
    report.given =>
        \A i, j \in 1..Len(report.value.sources) :
           i # j => report.value.sources[i] # report.value.sources[j]

\* ------------------------------------------------------------------------
\* Part 7: ResearchPlanner.parsePlanResponse (src/unnamed/part_009), the zod
\* version (109-171) and the legacy version (283-342). Texts are sequences
\* of characters; JSON values are tagged records.
\* ------------------------------------------------------------------------

QuoteChar == "\""

WordChars == {"a", "b", "c", "d", "e", "f", "g", "h", "i", "j", "k", "l", "m", "n", "o",
              "p", "q", "r", "s", "t", "u", "v", "w", "x", "y", "z", "E", "I", "J", "N",
              "O", "Q", "R", "S", "_", "0", "1", "2", "3", "4", "5", "6", "7", "8", "9"}

DigitChars == {"0", "1", "2", "3", "4", "5", "6", "7", "8", "9"}

DigitValue(c) ==
    CASE c = "0" -> 0 [] c = "1" -> 1 [] c = "2" -> 2 [] c = "3" -> 3 [] c = "4" -> 4
      [] c = "5" -> 5 [] c = "6" -> 6 [] c = "7" -> 7 [] c = "8" -> 8 [] c = "9" -> 9

\* JSON values.
JNull == [kind |-> "null", str |-> <<>>, num |-> 0, items |-> <<>>, members |-> <<>>]

JStr(s) == [JNull EXCEPT !.kind = "str", !.str = s]

JNum(n) == [JNull EXCEPT !.kind = "num", !.num = n]

JArr(items) == [JNull EXCEPT !.kind = "arr", !.items = items]

JObj(members) == [JNull EXCEPT !.kind = "obj", !.members = members]

\* Result of a parsing step: the value and the index after it.
Parsed(val, next) == [ok |-> TRUE, val |-> val, next |-> next]

SyntaxError == [ok |-> FALSE, val |-> JNull, next |-> 0]

At(t, i) == IF i >= 1 /\ i <= Len(t) THEN t[i] ELSE "<end>"

RECURSIVE SkipSpaces(_, _)
\* Index of the first character at or after i that is not white space.
SkipSpaces(t, i) == IF At(t, i) = " " THEN SkipSpaces(t, i + 1) ELSE i

RECURSIVE WordEnd(_, _)
\* Index after the run of word characters that starts at i.
WordEnd(t, i) == IF At(t, i) \in WordChars THEN WordEnd(t, i + 1) ELSE i

RECURSIVE QuoteEnd(_, _)
\* Index of the next quote character at or after i, or 0.
QuoteEnd(t, i) ==
    IF i > Len(t) THEN 0 ELSE IF t[i] = QuoteChar THEN i ELSE QuoteEnd(t, i + 1)

RECURSIVE DigitsValue(_, _, _, _)
DigitsValue(t, i, j, acc) ==
    IF i >= j THEN acc ELSE DigitsValue(t, i + 1, j, acc * 10 + DigitValue(t[i]))

RECURSIVE DigitsEnd(_, _)
DigitsEnd(t, i) == IF At(t, i) \in DigitChars THEN DigitsEnd(t, i + 1) ELSE i

\* A string literal at i (escapes do not occur in the texts tried).
ParseString(t, i) ==
    IF At(t, i) # QuoteChar THEN SyntaxError
    ELSE LET j == QuoteEnd(t, i + 1)
         IN IF j = 0 THEN SyntaxError ELSE Parsed(JStr(SubSeq(t, i + 1, j - 1)), j + 1)

\* A non-negative integer literal at i.
ParseNumber(t, i) ==
    LET j == DigitsEnd(t, i)
    IN IF j = i \/ (At(t, i) = "0" /\ j > i + 1) THEN SyntaxError
       ELSE Parsed(JNum(DigitsValue(t, i, j, 0)), j)

RECURSIVE ParseValue(_, _)
RECURSIVE ParseMembers(_, _, _)
RECURSIVE ParseElements(_, _, _)

\* The members of an object after "{" or ",": "key": value, then "," or "}".
ParseMembers(t, i, acc) ==
    LET key == ParseString(t, SkipSpaces(t, i))
    IN IF ~key.ok THEN SyntaxError
       ELSE LET colon == SkipSpaces(t, key.next)
            IN IF At(t, colon) # ":" THEN SyntaxError
               ELSE LET v == ParseValue(t, colon + 1)
                    IN IF ~v.ok THEN SyntaxError
                       ELSE LET after == SkipSpaces(t, v.next)
                                members == Append(acc, [key |-> key.val.str, val |-> v.val])
                            IN IF At(t, after) = "," THEN ParseMembers(t, after + 1, members)
                               ELSE IF At(t, after) = "}"
                               THEN Parsed(JObj(members), after + 1)
                               ELSE SyntaxError

\* The elements of an array after "[" or ",": value, then "," or "]".
ParseElements(t, i, acc) ==
    LET v == ParseValue(t, i)
    IN IF ~v.ok THEN SyntaxError
       ELSE LET after == SkipSpaces(t, v.next)
                items == Append(acc, v.val)
            IN IF At(t, after) = "," THEN ParseElements(t, after + 1, items)
               ELSE IF At(t, after) = "]" THEN Parsed(JArr(items), after + 1)
               ELSE SyntaxError

\* A JSON value at or after i.
ParseValue(t, i) ==
    LET j == SkipSpaces(t, i)
        c == At(t, j)
    IN IF c = "{"
       THEN (IF At(t, SkipSpaces(t, j + 1)) = "}"
             THEN Parsed(JObj(<<>>), SkipSpaces(t, j + 1) + 1)
             ELSE ParseMembers(t, j + 1, <<>>))
       ELSE IF c = "["
       THEN (IF At(t, SkipSpaces(t, j + 1)) = "]"
             THEN Parsed(JArr(<<>>), SkipSpaces(t, j + 1) + 1)
             ELSE ParseElements(t, j + 1, <<>>))
       ELSE IF c = QuoteChar THEN ParseString(t, j)
       ELSE IF c \in DigitChars THEN ParseNumber(t, j)
       ELSE SyntaxError

\* JSON.parse: one value and nothing but white space after it.
JSONparse(t) ==
    LET v == ParseValue(t, 1)
    IN IF v.ok /\ SkipSpaces(t, v.next) = Len(t) + 1 THEN v ELSE SyntaxError

RECURSIVE SpacesStart(_, _)
\* Index of the first character of the run of white space that ends at i.
SpacesStart(t, i) == IF At(t, i) = " " THEN SpacesStart(t, i - 1) ELSE i + 1

\* A match of /,\s*([}\]])/ starts at index i.
TrailingCommaAt(t, i) ==
    At(t, i) = "," /\ At(t, SkipSpaces(t, i + 1)) \in {"}", "]"}

\* The character at i is removed by the trailing-comma repair: it is the
\* comma of a match or white space between that comma and the bracket.
RemovedByCommaRepair(t, i) ==
    \/ TrailingCommaAt(t, i)
    \/ /\ At(t, i) = " "
       /\ TrailingCommaAt(t, SpacesStart(t, i) - 1)

RECURSIVE Concat(_, _, _)
\* The pieces lo..hi of a sequence of texts, joined.
Concat(pieces, lo, hi) ==
    IF lo > hi THEN <<>>
    ELSE IF lo = hi THEN pieces[lo]
    ELSE LET mid == (lo + hi) \div 2
         IN Concat(pieces, lo, mid) \o Concat(pieces, mid + 1, hi)

\* part_009:124: .replace(/,\s*([}\]])/g, '$1')
RemoveTrailingCommas(t) ==
    Concat([i \in 1..Len(t) |-> IF RemovedByCommaRepair(t, i) THEN <<>> ELSE <<t[i]>>],
           1, Len(t))

\* A match of /([{,]\s*)(\w+)(\s*:)/ starts at index i.
UnquotedKeyAt(t, i) ==
    /\ At(t, i) \in {"{", ","}
    /\ WordEnd(t, SkipSpaces(t, i + 1)) > SkipSpaces(t, i + 1)
    /\ At(t, SkipSpaces(t, WordEnd(t, SkipSpaces(t, i + 1)))) = ":"

RECURSIVE WordStart(_, _)
\* Index of the first character of the run of word characters that ends at i.
WordStart(t, i) == IF At(t, i) \in WordChars THEN WordStart(t, i - 1) ELSE i + 1

\* The word that starts at i is the key of a match: it follows "{" or ","
\* and white space, and white space and ":" follow it.
KeyStartsAt(t, i) ==
    /\ At(t, i) \in WordChars
    /\ At(t, i - 1) \notin WordChars
    /\ UnquotedKeyAt(t, SpacesStart(t, i - 1) - 1)

\* part_009:125: .replace(/([{,]\s*)(\w+)(\s*:)/g, '$1"$2"$3')
QuoteKeys(t) ==
    Concat([i \in 1..Len(t) |->
               (IF KeyStartsAt(t, i) THEN <<QuoteChar>> ELSE <<>>)
               \o <<t[i]>>
               \o (IF At(t, i) \in WordChars /\ At(t, i + 1) \notin WordChars
                      /\ KeyStartsAt(t, WordStart(t, i))
                   THEN <<QuoteChar>> ELSE <<>>)],
           1, Len(t))


\* part_009:123-125: the two repairs, one after the other.
RepairJSON(t) == QuoteKeys(RemoveTrailingCommas(t))

\* Indices of the character c in t.
IndicesOf(t, c) == {i \in 1..Len(t) : t[i] = c}

FirstIndexOf(t, c) ==
    IF IndicesOf(t, c) = {} THEN 0
    ELSE CHOOSE i \in IndicesOf(t, c) : \A j \in IndicesOf(t, c) : i <= j

LastIndexOf(t, c) ==
    IF IndicesOf(t, c) = {} THEN 0
    ELSE CHOOSE i \in IndicesOf(t, c) : \A j \in IndicesOf(t, c) : i >= j

\* part_009:130: cleanContent.match(/\{[\s\S]*\}/): from the first "{" to
\* the last "}"; Unset when there is no match.
MatchObject(t) ==
    LET first == FirstIndexOf(t, "{")
        last == LastIndexOf(t, "}")
    IN IF first > 0 /\ last > first THEN Given(SubSeq(t, first, last)) ELSE Unset

StartsWith(t, prefix) ==
    Len(t) >= Len(prefix) /\ SubSeq(t, 1, Len(prefix)) = prefix

EndsWith(t, suffix) ==
    Len(t) >= Len(suffix) /\ SubSeq(t, Len(t) - Len(suffix) + 1, Len(t)) = suffix

\* The backquote character.
Backquote == "BACKQUOTE"

Fence == <<Backquote, Backquote, Backquote>>

FenceJson == Fence \o <<"j", "s", "o", "n">>

\* part_009:110-119: strip a markdown code fence and surrounding space.
CleanContent(content) ==
    LET trimmed == trim(content)
        opened == IF StartsWith(trimmed, FenceJson) THEN SubSeq(trimmed, 8, Len(trimmed))
                  ELSE IF StartsWith(trimmed, Fence) THEN SubSeq(trimmed, 4, Len(trimmed))
                  ELSE trimmed
        closed == IF EndsWith(opened, Fence) THEN SubSeq(opened, 1, Len(opened) - 3)
                  ELSE opened
    IN trim(closed)

\* obj.key of a parsed value: Unset when the value is not an object or has
\* no such key (the last of several members with one key counts).
RECURSIVE LastMember(_, _, _)
LastMember(members, key, i) ==
    IF i < 1 THEN Unset
    ELSE IF members[i].key = key THEN Given(members[i].val)
    ELSE LastMember(members, key, i - 1)

Get(v, key) ==
    IF v.kind = "obj" THEN LastMember(v.members, key, Len(v.members)) ELSE Unset

\* The property names of a plan (part_009:5-18).
kMainQuestion == <<"m", "a", "i", "n", "Q", "u", "e", "s", "t", "i", "o", "n">>

kSteps == <<"s", "t", "e", "p", "s">>

kId == <<"i", "d">>

kQuestion == <<"q", "u", "e", "s", "t", "i", "o", "n">>

kSearchQuery == <<"s", "e", "a", "r", "c", "h", "Q", "u", "e", "r", "y">>

kPurpose == <<"p", "u", "r", "p", "o", "s", "e">>

\* 'Research query' (part_009:329)
DefaultMainQuestion ==
    <<"R", "e", "s", "e", "a", "r",
      "c", "h", " ", "q", "u", "e", "r", "y">>

\* `Step ${index + 1}` (part_009:324), for an index below 9
StepLabel(n) == <<"S", "t", "e", "p", " ">> \o <<CHOOSE c \in DigitChars : DigitValue(c) = n>>

NoPlan == [mainQuestion |-> JNull, steps |-> <<>>]

\* parsePlanResponse returned a plan.
Returns(plan) == [ok |-> TRUE, errorName |-> "", plan |-> plan]

\* part_009:60, 134, 144, 341: throw new Error(...)
Throws == [ok |-> FALSE, errorName |-> "Error", plan |-> NoPlan]

\* x || fallback for a property that may be missing: empty strings and 0
\* are falsy.
OrElse(field, fallback) ==
    IF ~field.given THEN fallback
    ELSE IF field.value.kind = "str" /\ field.value.str = <<>> THEN fallback
    ELSE IF field.value.kind = "num" /\ field.value.num = 0 THEN fallback
    ELSE field.value

\* x ?? fallback
OrDefault(field, fallback) == IF field.given THEN field.value ELSE fallback

PlanStep(id, question, searchQuery, purpose) ==
    [id |-> id, question |-> question, searchQuery |-> searchQuery, purpose |-> purpose,
     status |-> "pending"]

IsString(field) == IF field.given THEN field.value.kind = "str" ELSE FALSE

OptionalString(field) == IF field.given THEN field.value.kind = "str" ELSE TRUE

\* part_009:5-12 ResearchStepSchema
ValidStep(v) ==
    /\ v.kind = "obj"
    /\ IF Get(v, kId).given
       THEN Get(v, kId).value.kind = "num" /\ Get(v, kId).value.num > 0
       ELSE TRUE
    /\ IF IsString(Get(v, kQuestion)) THEN Len(Get(v, kQuestion).value.str) >= 1 ELSE FALSE
    /\ OptionalString(Get(v, kSearchQuery))
    /\ OptionalString(Get(v, kPurpose))

\* part_009:14-18 ResearchPlanSchema.safeParse(rawJson).success
ValidPlan(v) ==
    /\ v.kind = "obj"
    /\ IsString(Get(v, kMainQuestion))
    /\ IF Get(v, kSteps).given
       THEN /\ Get(v, kSteps).value.kind = "arr"
            /\ \A i \in 1..Len(Get(v, kSteps).value.items) :
                  ValidStep(Get(v, kSteps).value.items[i])
       ELSE FALSE


\* part_009:156, 323: id: step.id ?? index + 1 (index counts from 0)
StepId(step, index) == OrDefault(Get(step, kId), JNum(index + 1))

\* part_009:153-162: the steps of the validated plan with defaults filled in.
ZodSteps(items) ==
    [i \in 1..Len(items) |->
        PlanStep(StepId(items[i], i - 1),
                 Get(items[i], kQuestion).value,
                 OrElse(Get(items[i], kSearchQuery), Get(items[i], kQuestion).value),
                 OrElse(Get(items[i], kPurpose), JStr(<<>>)))]

\* part_009:121-137: JSON.parse, then the repaired text, then the text
\* between the first "{" and the last "}".
ZodRawJson(clean) ==
    LET direct == JSONparse(clean)
        fixed == JSONparse(RepairJSON(clean))
        match == MatchObject(clean)
        found == IF match.given THEN JSONparse(match.value) ELSE SyntaxError
    IN IF direct.ok THEN direct ELSE IF fixed.ok THEN fixed ELSE found

\* part_009:109-171 parsePlanResponse (zod)
ZodParsePlanResponse(content) ==
    LET rawJson == ZodRawJson(CleanContent(content))
    IN IF ~rawJson.ok THEN Throws
       ELSE IF ~ValidPlan(rawJson.val) THEN Throws
       ELSE Returns([mainQuestion |-> Get(rawJson.val, kMainQuestion).value,
                     steps |-> ZodSteps(Get(rawJson.val, kSteps).value.items)])

\* part_009:320-326: the steps of the legacy parser, defaults filled in.
LegacySteps(items) ==
    [i \in 1..Len(items) |->
        PlanStep(StepId(items[i], i - 1),
                 OrElse(Get(items[i], kQuestion), JStr(StepLabel(i))),
                 OrElse(Get(items[i], kSearchQuery),
                        OrElse(Get(items[i], kQuestion), JStr(<<>>))),
                 OrElse(Get(items[i], kPurpose), JStr(<<>>)))]

\* part_009:293-312: the three parsing strategies, in order.
LegacyStrategies(clean) ==
    LET match == MatchObject(clean)
        fixedMatch == MatchObject(RepairJSON(clean))
    IN <<JSONparse(clean),
         IF match.given THEN JSONparse(match.value) ELSE SyntaxError,
         IF fixedMatch.given THEN JSONparse(fixedMatch.value) ELSE SyntaxError>>

\* part_009:316-318: a strategy's result is used when it has a steps array.
HasStepsArray(parsed) ==
    /\ parsed.ok
    /\ IF Get(parsed.val, kSteps).given
       THEN Get(parsed.val, kSteps).value.kind = "arr" ELSE FALSE

RECURSIVE LegacyFirstUsable(_, _)
LegacyFirstUsable(attempts, i) ==
    IF i > Len(attempts) THEN Throws
    ELSE IF HasStepsArray(attempts[i])
    THEN Returns([mainQuestion |-> OrElse(Get(attempts[i].val, kMainQuestion),
                                          JStr(DefaultMainQuestion)),
                  steps |-> LegacySteps(Get(attempts[i].val, kSteps).value.items)])
    ELSE LegacyFirstUsable(attempts, i + 1)

\* part_009:277-342 parsePlanResponse (legacy)
LegacyParsePlanResponse(content) ==
    LegacyFirstUsable(LegacyStrategies(CleanContent(content)), 1)

parsePlanResponse(which, content) ==
    IF which = "zod" THEN ZodParsePlanResponse(content)
    ELSE LegacyParsePlanResponse(content)

\* ---- the responses tried ----

Quoted(s) == <<QuoteChar>> \o s \o <<QuoteChar>>

\* A property name as the model writes it: quoted, or bare in loose JSON.
KeyText(key, loose) == IF loose THEN key ELSE Quoted(key)

\* A trailing comma, in loose JSON only.
TrailingComma(loose) == IF loose THEN <<",">> ELSE <<>>

DigitText(n) == <<CHOOSE c \in DigitChars : DigitValue(c) = n>>

\* The JSON text of one step {id?, question, searchQuery?}.
StepText(step, loose) ==
    <<"{">>
    \o (IF step.id.given
        THEN KeyText(kId, loose) \o <<":">> \o DigitText(step.id.value) \o <<",">>
        ELSE <<>>)
    \o KeyText(kQuestion, loose) \o <<":">> \o Quoted(step.question)
    \o (IF step.searchQuery.given
        THEN <<",">> \o KeyText(kSearchQuery, loose) \o <<":">> \o Quoted(step.searchQuery.value)
        ELSE <<>>)
    \o TrailingComma(loose) \o <<"}">>

RECURSIVE StepsText(_, _)
StepsText(planSteps, loose) ==
    IF Len(planSteps) = 1 THEN StepText(planSteps[1], loose)
    ELSE StepText(planSteps[1], loose) \o <<",">> \o StepsText(Tail(planSteps), loose)

\* The JSON text of a plan; loose: keys unquoted and trailing commas added.
PlanText(plan, loose) ==
    <<"{">> \o KeyText(kMainQuestion, loose) \o <<":">> \o Quoted(plan.mainQuestion)
    \o <<",">> \o KeyText(kSteps, loose) \o <<":", "[">> \o StepsText(plan.steps, loose)
    \o TrailingComma(loose) \o <<"]">> \o TrailingComma(loose) \o <<"}">>

\* Most steps in a plan the model answers with.
MaxPlanSteps == 2

StepInput(id, question, searchQuery) ==
    [id |-> id, question |-> question, searchQuery |-> searchQuery]

\* The steps the model answers with: with and without id, with plain
\* questions and with questions that contain commas, colons and braces.
StepInputs ==
    {StepInput(Unset, <<"a", "b">>, Unset),
     StepInput(Given(1), <<"c">>, Given(<<"s">>)),
     StepInput(Given(2), <<"d">>, Unset),
     StepInput(Given(0), <<"e">>, Unset),
     StepInput(Unset, <<"a", ",", " ", "b", ":", " ", "c">>, Unset),
     StepInput(Unset, <<"f", ",", "}">>, Unset)}

PlanInputs ==
    [mainQuestion : {<<"q">>},
     steps : UNION {[1..n -> StepInputs] : n \in 1..MaxPlanSteps}]

\* Answers that are not a plan.
MalformedResponses ==
    {<<"I", "n", "v", "a", "l", "i", "d", " ", "J", "S", "O", "N">>,
     <<"{">>,
     <<"[", "]">>,
     <<"{">> \o Quoted(kSteps) \o <<":", "5", "}">>,
     <<"{">> \o Quoted(kMainQuestion) \o <<":">> \o Quoted(<<"q">>) \o <<"}">>,
     <<"{">> \o Quoted(kSteps) \o <<":", "[", "7", "]", "}">>}

\* part_009:43-64: the model answered; an empty answer throws at once.
ModelResponds ==
    /\ p_pc = "config"
    /\ \/ \E plan \in PlanInputs, loose \in BOOLEAN, fenced \in BOOLEAN :
            /\ planContent' = (IF fenced THEN FenceJson \o <<" ">> ELSE <<>>)
                          \o PlanText(plan, loose)
                          \o (IF fenced THEN <<" ">> \o Fence ELSE <<>>)
            /\ strictTwin' = Given(PlanText(plan, FALSE))
       \/ \E text \in MalformedResponses \cup {<<>>} :
            /\ planContent' = text
            /\ strictTwin' = Unset
    /\ IF planContent' = <<>>
       THEN p_pc' = "done" /\ planResult' = Given(Throws)
       ELSE p_pc' = "asked" /\ planResult' = planResult
    /\ UNCHANGED planner
    /\ UNCHANGED nonPlannerVars

\* part_009:64, 102: return this.parsePlanResponse(planContent)
ParsePlanResponse ==
    /\ p_pc = "asked"
    /\ planResult' = Given(parsePlanResponse(planner, planContent))
    /\ p_pc' = "done"
    /\ UNCHANGED <<planner, planContent, strictTwin>>
    /\ UNCHANGED nonPlannerVars

PlannerInit ==
    /\ p_pc = "config"
    /\ planner \in {"zod", "legacy"}
    /\ planContent = <<>>
    /\ strictTwin = Unset
    /\ planResult = Unset

PlannerNext ==
    \/ ModelResponds
    \/ ParsePlanResponse

InitPlanner ==
    PlannerInit /\ RunnerIdle /\ FollowupIdle /\ RecursionIdle /\ AnalyzeIdle /\ MergeIdle
                /\ BodyIdle /\ FactCheckIdle
                /\ RetryIdle
                /\ SummarizerIdle
                /\ ExecutorIdle
                /\ ConstructorIdle
                /\ SearchLoopIdle
                /\ ExpansionIdle
                /\ StepIdsIdle
                /\ SharedIdle

SpecPlanner == InitPlanner /\ [][PlannerNext]_vars

\* parsePlanResponse has returned a plan.
PlanReturned ==
    /\ p_pc = "done"
    /\ IF planResult.given THEN planResult.value.ok ELSE FALSE

\* createPlan has thrown.
PlanningFailed ==
    /\ p_pc = "done"
    /\ IF planResult.given THEN ~planResult.value.ok ELSE FALSE

\* C17: the steps of every plan the Planner returns have pairwise distinct
\* positive integer ids, for any mix of steps with and without an id in
\* the model's answer.
C17_StepIdsDistinctPositive ==
    PlanReturned =>
        LET planSteps == planResult.value.plan.steps
        IN /\ \A i \in 1..Len(planSteps) :
                planSteps[i].id.kind = "num" /\ planSteps[i].id.num > 0
           /\ \A i, j \in 1..Len(planSteps) :
                i # j => planSteps[i].id # planSteps[j].id

\* C18: when the answer cannot be turned into a plan, createPlan fails with
\* an error of type PlanningError.
C18_FailsWithPlanningError ==
    PlanningFailed => planResult.value.errorName = "PlanningError"

\* C19: an answer with unquoted keys and trailing commas yields the same
\* plan (or the same failure) as the strictly valid JSON it was derived from.
C19_LooseJsonParsesLikeStrict ==
    (p_pc = "done" /\ strictTwin.given) =>
        planResult.value = parsePlanResponse(planner, strictTwin.value)

\* ---------------------------------------------------------------------------
\* Part 8: FactChecker (src/src/agent/fact-checker.ts): verify, extractClaims,
\* verifyClaim and formatAsMarkdown.
\* ---------------------------------------------------------------------------

\* fact-checker.ts:130: .slice(0, 10)
ClaimLimit == 10

\* fact-checker.ts:83: .slice(0, 10)
SourceLimit == 10

\* fact-checker.ts:217: unverifiedClaims.slice(0, 5)
ListedClaims == 5

\* fact-checker.ts:218: c.claim.slice(0, 100)
PreviewLength == 100

\* Most sources handed to verify.
MaxFactSources == 2

kClaims == <<"c", "l", "a", "i", "m", "s">>

\* A chat request that rejected, and one that answered with a text.
ChatRejects == [ok |-> FALSE, content |-> <<>>]

ChatAnswers(text) == [ok |-> TRUE, content |-> text]

\* fact-checker.ts:129: typeof c === 'string' && c.trim()
IsClaim(item) == item.kind = "str" /\ trim(item.str) # <<>>

\* fact-checker.ts:128-130: filter, then the first ten; the claims as texts.
ClaimTexts(items) ==
    LET kept == SelectSeq(items, IsClaim)
    IN [i \in 1..Min(Len(kept), ClaimLimit) |-> kept[i].str]

\* fact-checker.ts:114-138 extractClaims: [] when the request rejects, when
\* the answer holds no {...}, when that is no JSON, and when its claims
\* member is no array.
extractClaims(response) ==
    IF ~response.ok THEN <<>>
    ELSE LET jsonMatch == MatchObject(trim(response.content))
         IN IF ~jsonMatch.given THEN <<>>
            ELSE LET parsed == JSONparse(jsonMatch.value)
                 IN IF ~parsed.ok THEN <<>>
                    ELSE LET member == Get(parsed.val, kClaims)
                         IN IF member.given
                            THEN IF member.value.kind = "arr"
                                 THEN ClaimTexts(member.value.items)
                                 ELSE <<>>
                            ELSE <<>>

\* A source: its url and whether it carries text, a summary or highlights.
FactSource(url, hasContent) == [url |-> url, hasContent |-> hasContent]

HasContent(s) == s.hasContent

\* fact-checker.ts:81-87 sourceTexts
SourceTexts(given) ==
    LET kept == SelectSeq(given, HasContent)
    IN SubSeq(kept, 1, Min(Len(kept), SourceLimit))

\* fact-checker.ts:173: the confidence of an answer that names none, 0.5;
\* confidences are counted in tenths.
DefaultConfidence == 5

ClaimVerification(claim, status, confidence, sourceUrl) ==
    [claim |-> claim, status |-> status, confidence |-> confidence,
     sourceUrl |-> sourceUrl]

\* An answer to one verification request: "throws" is a rejected request,
\* "no json" an answer without a JSON object or with a broken one.
VerifyAnswer(kind, confidence) == [kind |-> kind, confidence |-> confidence]

\* What the model may answer to one verification request.
VerifyAnswers ==
    {VerifyAnswer("verified", Given(9)),
     VerifyAnswer("verified", Unset),
     VerifyAnswer("partially_verified", Given(4)),
     VerifyAnswer("unverified", Given(2)),
     VerifyAnswer("no json", Unset),
     VerifyAnswer("throws", Unset)}

\* fact-checker.ts:168
Supports == {"verified", "partially_verified"}

\* The loop with a catch that lets a rejected request escape.
VerifyOutcomeRethrow(answer) ==
    IF answer.kind \in Supports THEN "return"
    ELSE IF answer.kind = "throws" THEN "reject" ELSE "next"

\* The loop that goes on after a partial support to look for a full one.
VerifyOutcomeKeepLooking(answer) ==
    IF answer.kind = "verified" THEN "return" ELSE "next"

\* fact-checker.ts:148-181: what the loop does with the answer about one
\* source: return the verification, or go on to the next source.
VerifyOutcome(answer) ==
    IF answer.kind \in Supports THEN "return" ELSE "next"

\* fact-checker.ts:169-175
Supported(claim, answer, source) ==
    ClaimVerification(claim, answer.kind,
                      IF answer.confidence.given THEN answer.confidence.value
                      ELSE DefaultConfidence,
                      Given(source.url))

\* fact-checker.ts:184-188
Unsupported(claim) == ClaimVerification(claim, "unverified", 0, Unset)

\* An entry of the request log.
Request(claimIndex, source, answer) ==
    [claim |-> claimIndex, url |-> source.url,
     verdict |-> IF answer.kind \in Supports THEN answer.kind ELSE "none"]

VerificationResult(totalClaims, verifiedCount, partiallyVerifiedCount, unverifiedCount, list) ==
    [totalClaims |-> totalClaims,
     verifiedCount |-> verifiedCount,
     partiallyVerifiedCount |-> partiallyVerifiedCount,
     unverifiedCount |-> unverifiedCount,
     claims |-> list]

\* fact-checker.ts:71-77
NoClaimsResult == VerificationResult(0, 0, 0, 0, <<>>)

WithStatus(list, status) == Cardinality({i \in 1..Len(list) : list[i].status = status})

\* fact-checker.ts:98-108
Summarize(extracted, list) ==
    VerificationResult(Len(extracted),
                       WithStatus(list, "verified"),
                       WithStatus(list, "partially_verified"),
                       WithStatus(list, "unverified"),
                       list)

\* A line of the markdown block.
Line(kind, n, m, rate, text) ==
    [kind |-> kind, n |-> n, m |-> m, rate |-> rate, text |-> text]

PlainLine(kind) == Line(kind, 0, 0, Unset, <<>>)

\* fact-checker.ts:202: ((verified + partial * 0.5) / total * 100).toFixed(0),
\* rounded half up; NaN (Unset) for 0 / 0.
VerificationRate(result) ==
    IF result.totalClaims = 0 THEN Unset
    ELSE Given(((2 * result.verifiedCount + result.partiallyVerifiedCount) * 100
                + result.totalClaims) \div (2 * result.totalClaims))

IsUnverified(c) == c.status = "unverified"

\* fact-checker.ts:218: the first 100 characters, "..." after a longer claim.
Preview(i, claim) ==
    Line(IF Len(claim) > PreviewLength THEN "item..." ELSE "item", i, 0, Unset,
         SubSeq(claim, 1, Min(Len(claim), PreviewLength)))

\* fact-checker.ts:199-225: the lines pushed for a result.
MarkdownLines(result) ==
    LET unverifiedClaims == SelectSeq(result.claims, IsUnverified)
        listed == Min(Len(unverifiedClaims), ListedClaims)
    IN <<PlainLine("## Verification Summary"),
         PlainLine("> [!NOTE]"),
         Line("verified of total", result.verifiedCount, result.totalClaims,
              VerificationRate(result), <<>>),
         PlainLine("")>>
       \o (IF result.unverifiedCount > 0
           THEN <<PlainLine("> [!CAUTION]"),
                  Line("could not be verified", result.unverifiedCount, 0, Unset, <<>>),
                  PlainLine("")>>
           ELSE <<>>)
       \o (IF Len(unverifiedClaims) > 0
           THEN <<PlainLine("### Unverified Claims")>>
                \o [i \in 1..listed |-> Preview(i, unverifiedClaims[i].claim)]
                \o (IF Len(unverifiedClaims) > ListedClaims
                    THEN <<Line("and more", Len(unverifiedClaims) - ListedClaims, 0,
                                Unset, <<>>)>>
                    ELSE <<>>)
           ELSE <<>>)

\* formatAsMarkdown without the guard of fact-checker.ts:195-197.
formatAsMarkdownUnguarded(result) == MarkdownLines(result)

\* fact-checker.ts:194-226 formatAsMarkdown: the lines joined by "\n"; the
\* empty string is the empty sequence of lines.
formatAsMarkdown(result) ==
    IF result.totalClaims = 0 THEN <<>> ELSE MarkdownLines(result)

\* The sources a caller hands over: up to MaxFactSources, with or without text.
SourceUrls == <<"s1", "s2", "s3", "s4", "s5", "s6", "s7", "s8", "s9", "s10", "s11", "s12">>

\* More sources with content than verify looks at, and one without content.
ManySources == [i \in 1..(SourceLimit + 2) |-> FactSource(SourceUrls[i], i # 2)]

FactSourceLists ==
    UNION {[1..n -> {FactSource("u1", TRUE), FactSource("u2", TRUE),
                     FactSource("u3", FALSE)}] : n \in 0..MaxFactSources}
    \cup {ManySources}

ClaimsText(body) == <<"{">> \o Quoted(kClaims) \o <<":">> \o body \o <<"}">>

\* Answers to the extraction request that hold no usable claim.
FailedExtractions ==
    {ChatRejects,
     ChatAnswers(<<>>),
     ChatAnswers(<<" ">>),
     ChatAnswers(<<"n", "o", "n", "e">>),
     ChatAnswers(<<"{">> \o Quoted(kClaims) \o <<":", "[", "}">>),
     ChatAnswers(<<"{", "}">>),
     ChatAnswers(ClaimsText(Quoted(<<"x">>))),
     ChatAnswers(ClaimsText(<<"[", "]">>)),
     ChatAnswers(ClaimsText(<<"[">> \o Quoted(<<" ">>) \o <<",", "7", "]">>))}

\* Answers that hold one or two claims.
UsableExtractions ==
    {ChatAnswers(ClaimsText(<<"[">> \o Quoted(<<"a">>) \o <<"]">>)),
     ChatAnswers(<<"o", "k", " ">> \o ClaimsText(<<"[">> \o Quoted(<<"a">>) \o <<",">>
                                                 \o Quoted(<<"b">>) \o <<"]">>)),
     ChatAnswers(ClaimsText(<<"[">> \o Quoted(<<" ">>) \o <<",">>
                            \o Quoted(<<"b">>) \o <<"]">>) \o <<" ">>)}

\* fact-checker.ts:66: verify(report, sources) is called.
Verify ==
    /\ k_pc = "call"
    /\ \E given \in FactSourceLists : factSources' = given
    /\ k_pc' = "extracting"
    /\ UNCHANGED <<extraction, claims, verifications, sourceIndex, requests, failedRequests,
                 verification, markdown>>
    /\ UNCHANGED nonFactCheckVars

\* fact-checker.ts:68-78: extractClaims resolved; verify returns at once
\* when there is no claim.
ExtractClaimsResolves ==
    /\ k_pc = "extracting"
    /\ \E response \in FailedExtractions \cup UsableExtractions :
         /\ extraction' = Given(response)
         /\ claims' = extractClaims(response)
         /\ IF Len(extractClaims(response)) = 0
            THEN /\ verification' = Given(NoClaimsResult)
                 /\ k_pc' = "returned"
            ELSE /\ verification' = verification
                 /\ k_pc' = "verifying"
    /\ UNCHANGED <<factSources, verifications, sourceIndex, requests, failedRequests, markdown>>
    /\ UNCHANGED nonFactCheckVars

\* fact-checker.ts:92-95, 148-188: the request about the next source has
\* settled. A supporting answer ends the claim; after the last source the
\* claim is recorded unverified.
ConsultSource ==
    /\ k_pc = "verifying"
    /\ Len(verifications) < Len(claims)
    /\ sourceIndex < Len(SourceTexts(factSources))
    /\ LET texts == SourceTexts(factSources)
           claimIndex == Len(verifications) + 1
           source == texts[sourceIndex + 1]
       IN \E answer \in VerifyAnswers :
            /\ requests' = Append(requests, Request(claimIndex, source, answer))
            /\ failedRequests' = IF answer.kind \in {"no json", "throws"}
                                 THEN failedRequests + 1 ELSE failedRequests
            /\ IF VerifyOutcome(answer) = "return"
               THEN /\ verifications' =
                         Append(verifications, Supported(claims[claimIndex], answer, source))
                    /\ sourceIndex' = 0
                    /\ k_pc' = k_pc
               ELSE IF VerifyOutcome(answer) = "reject"
               THEN /\ k_pc' = "rejected"
                    /\ UNCHANGED <<verifications, sourceIndex>>
               ELSE IF sourceIndex + 1 = Len(texts)
               THEN /\ verifications' = Append(verifications, Unsupported(claims[claimIndex]))
                    /\ sourceIndex' = 0
                    /\ k_pc' = k_pc
               ELSE /\ sourceIndex' = sourceIndex + 1
                    /\ UNCHANGED <<verifications, k_pc>>
    /\ UNCHANGED <<factSources, extraction, claims, verification, markdown>>
    /\ UNCHANGED nonFactCheckVars

\* fact-checker.ts:148, 184-188: there is no source to consult.
VerifyWithoutSources ==
    /\ k_pc = "verifying"
    /\ Len(verifications) < Len(claims)
    /\ Len(SourceTexts(factSources)) = 0
    /\ verifications' = Append(verifications, Unsupported(claims[Len(verifications) + 1]))
    /\ UNCHANGED <<k_pc, factSources, extraction, claims, sourceIndex, requests,
                   failedRequests, verification, markdown>>
    /\ UNCHANGED nonFactCheckVars

\* fact-checker.ts:97-108: the loop is over, verify returns the counts.
VerifyReturns ==
    /\ k_pc = "verifying"
    /\ Len(verifications) = Len(claims)
    /\ verification' = Given(Summarize(claims, verifications))
    /\ k_pc' = "returned"
    /\ UNCHANGED <<factSources, extraction, claims, verifications, sourceIndex, requests,
                 failedRequests, markdown>>
    /\ UNCHANGED nonFactCheckVars

\* fact-checker.ts:194: the caller formats the result.
FormatAsMarkdown ==
    /\ k_pc = "returned"
    /\ markdown' = Given(formatAsMarkdown(verification.value))
    /\ k_pc' = "formatted"
    /\ UNCHANGED <<factSources, extraction, claims, verifications, sourceIndex, requests,
                 failedRequests, verification>>
    /\ UNCHANGED nonFactCheckVars

FactCheckInit ==
    /\ k_pc = "call"
    /\ factSources = <<>>
    /\ extraction = Unset
    /\ claims = <<>>
    /\ verifications = <<>>
    /\ sourceIndex = 0
    /\ requests = <<>>
    /\ failedRequests = 0
    /\ verification = Unset
    /\ markdown = Unset

FactCheckNext ==
    \/ Verify
    \/ ExtractClaimsResolves
    \/ ConsultSource
    \/ VerifyWithoutSources
    \/ VerifyReturns
    \/ FormatAsMarkdown

InitFactCheck ==
    FactCheckInit /\ RunnerIdle /\ FollowupIdle /\ RecursionIdle /\ AnalyzeIdle /\ MergeIdle
                  /\ BodyIdle /\ PlannerIdle
                  /\ RetryIdle
                  /\ SummarizerIdle
                  /\ ExecutorIdle
                  /\ ConstructorIdle
                  /\ SearchLoopIdle
                  /\ ExpansionIdle
                  /\ StepIdsIdle
                  /\ SharedIdle

SpecFactCheck == InitFactCheck /\ [][FactCheckNext]_vars

\* extractClaims has returned no claim.
NoClaimsExtracted ==
    /\ k_pc \in {"returned", "formatted"}
    /\ Len(claims) = 0

\* C20: when claim extraction yields no claims (the request failed, or the
\* answer is empty or malformed), verify returns all four counts 0 and an
\* empty claims list without a request about any source, and
\* formatAsMarkdown of that result is the empty string.
C20_NoClaimsNoVerification ==
    /\ (k_pc # "idle" /\ k_pc # "call" /\ k_pc # "extracting"
        /\ (IF extraction.given THEN extraction.value \in FailedExtractions ELSE FALSE))
          => Len(claims) = 0
    /\ NoClaimsExtracted =>
          /\ verification = Given(VerificationResult(0, 0, 0, 0, <<>>))
          /\ requests = <<>>
          /\ verifications = <<>>
    /\ (NoClaimsExtracted /\ k_pc = "formatted") => markdown = Given(<<>>)

\* A failed extraction with sources at hand has been formatted.
C20_Witness ==
    /\ k_pc = "formatted"
    /\ Len(claims) = 0
    /\ extraction = Given(ChatRejects)
    /\ Len(SourceTexts(factSources)) > 0

\* The requests sent about the claim with this index, in the order sent.
RequestsFor(claimIndex) ==
    LET About(r) == r.claim = claimIndex
    IN SelectSeq(requests, About)

\* C21: for each claim the sources are consulted one at a time in list
\* order, at most the first ten that have content; after the first source
\* judged verified or partially_verified no further source is consulted for
\* the claim, and the claim is recorded with that source's status and url.
C21_FirstSupportingSourceWins ==
    LET texts == SourceTexts(factSources)
        withContent == SelectSeq(factSources, HasContent)
    IN /\ Len(texts) <= SourceLimit
       /\ \A i \in 1..Len(texts) : texts[i] = withContent[i]
       /\ \A i, j \in 1..Len(requests) : i < j => requests[i].claim <= requests[j].claim
       /\ \A c \in 1..Len(claims) :
            LET asked == RequestsFor(c)
            IN /\ Len(asked) <= Len(texts)
               /\ \A i \in 1..Len(asked) : asked[i].url = texts[i].url
               /\ \A i \in 1..(Len(asked) - 1) : asked[i].verdict = "none"
               /\ (Len(asked) > 0 /\ asked[Len(asked)].verdict # "none") =>
                     /\ c <= Len(verifications)
                     /\ verifications[c].status = asked[Len(asked)].verdict
                     /\ verifications[c].sourceUrl = Given(asked[Len(asked)].url)
               /\ (c <= Len(verifications) /\ verifications[c].status \in Supports) =>
                     /\ Len(asked) > 0
                     /\ asked[Len(asked)].verdict = verifications[c].status

\* With more than ten sources at hand, a claim has been recorded as
\* partially verified by a source that was not the first one asked.
C21_Witness ==
    /\ k_pc = "returned"
    /\ Len(SelectSeq(factSources, HasContent)) > SourceLimit
    /\ \E c \in 1..Len(verifications) :
         /\ verifications[c].status = "partially_verified"
         /\ Len(RequestsFor(c)) >= 2

\* C22: a request about a source that rejects or answers without usable
\* JSON does not support the claim and the next source is still consulted;
\* a claim no source supports is recorded unverified with confidence 0 and
\* no sourceUrl; verify never rejects, and totalClaims is the sum of the
\* three counts.
C22_FailedChecksDoNotSupport ==
    /\ k_pc # "rejected"
    /\ \A c \in 1..Len(verifications) :
         LET asked == RequestsFor(c)
             unsupported == Len(asked) = 0 \/ asked[Len(asked)].verdict = "none"
         IN /\ unsupported <=> verifications[c].status = "unverified"
            /\ unsupported =>
                  /\ verifications[c].confidence = 0
                  /\ verifications[c].sourceUrl = Unset
                  /\ Len(asked) = Len(SourceTexts(factSources))
    /\ k_pc \in {"returned", "formatted"} =>
          /\ verification.given
          /\ verification.value.totalClaims = Len(claims)
          /\ Len(verification.value.claims) = Len(claims)
          /\ verification.value.totalClaims =
                verification.value.verifiedCount
                + verification.value.partiallyVerifiedCount
                + verification.value.unverifiedCount

\* verify has returned after requests failed: one claim is unverified, one
\* was supported by a source asked after a failure.
C22_Witness ==
    /\ k_pc = "returned"
    /\ failedRequests >= 2
    /\ Len(SourceTexts(factSources)) >= 2
    /\ verification.value.unverifiedCount > 0
    /\ verification.value.verifiedCount > 0

\* ---------------------------------------------------------------------------
\* Part 9: fetchWithRetry of OpenRouterClient (src/unnamed/part_010) and of
\* ExaClient (src/unnamed/part_012), and the client calls built on it.
\* ---------------------------------------------------------------------------

\* part_010:7, part_012:7
MAX_RETRIES == 3

\* part_010:8, part_012:8
INITIAL_RETRY_DELAY_MS == 1000

ClientOps == {"chat", "listModels", "search", "getContents"}

\* What one fetch gives: a response with a status, or a thrown error.
Response(status) == [response |-> TRUE, status |-> status, error |-> "none"]

FetchError(kind) == [response |-> FALSE, status |-> 0, error |-> kind]

Statuses == {200, 204, 302, 400, 401, 404, 429, 499, 500, 503}

FetchResults ==
    {Response(s) : s \in Statuses} \cup {FetchError("network"), FetchError("abort")}

\* Response.ok
IsOk(status) == status >= 200 /\ status <= 299

\* A 4xx status other than 429.
ClientError(status) == status >= 400 /\ status < 500 /\ status # 429

\* The test that sends every failed response round the loop again.
ReturnsAtOnceOnlyOk(status) == IsOk(status)

\* part_010:136, part_012:123: the response is handed back without retry.
ReturnsAtOnce(status) == IsOk(status) \/ ClientError(status)

RECURSIVE Pow2(_)
Pow2(n) == IF n = 0 THEN 1 ELSE 2 * Pow2(n - 1)

\* part_010:141-143, 154: the delay before the next attempt.
RetryDelay(result, n) ==
    IF result.response /\ result.status = 429
    THEN INITIAL_RETRY_DELAY_MS * Pow2(n + 1)
    ELSE INITIAL_RETRY_DELAY_MS * Pow2(n)

\* part_010:148-150: an abort is reported as a timeout.
CaughtError(kind) == IF kind = "abort" THEN "timed out" ELSE kind

Resolved == [ok |-> TRUE, status |-> 0, error |-> "none"]

Rejected(status, error) == [ok |-> FALSE, status |-> status, error |-> error]

\* part_010:193-206, 257-270, part_012:203-222, 267-270: the caller of
\* fetchWithRetry throws for a response that is not ok.
HandleResponse(status) ==
    IF IsOk(status) THEN Resolved ELSE Rejected(status, "api error")

\* part_010:162-163: after the loop, the last response if there was one,
\* else the last error is thrown.
AfterLoop(response, error) ==
    IF response.given THEN HandleResponse(response.value)
    ELSE Rejected(0, IF error.given THEN error.value ELSE "Max retries exceeded")

\* A client operation is called; getContents of no url returns [] at once
\* (part_012:254).
ClientCall ==
    /\ h_pc = "call"
    /\ \E op \in ClientOps, noUrls \in BOOLEAN :
         /\ noUrls => op = "getContents"
         /\ clientOp' = op
         /\ IF noUrls
            THEN h_pc' = "done" /\ callResult' = Given(Resolved)
            ELSE h_pc' = "fetching" /\ callResult' = callResult
    /\ UNCHANGED <<attempt, history, lastResponse, lastError, delays>>
    /\ UNCHANGED nonRetryVars

\* part_010:131-159: the fetch of this attempt has settled.
FetchSettles ==
    /\ h_pc = "fetching"
    /\ attempt < MAX_RETRIES
    /\ \E result \in FetchResults :
         LET response == IF result.response THEN Given(result.status) ELSE lastResponse
             error == IF result.response THEN lastError
                      ELSE Given(CaughtError(result.error))
             returned == IF result.response THEN ReturnsAtOnce(result.status) ELSE FALSE
         IN /\ history' = Append(history, result)
            /\ lastResponse' = response
            /\ lastError' = error
            /\ IF returned
               THEN /\ callResult' = Given(HandleResponse(result.status))
                    /\ h_pc' = "done"
                    /\ UNCHANGED <<attempt, delays>>
               ELSE IF attempt < MAX_RETRIES - 1
               THEN /\ delays' = Append(delays, RetryDelay(result, attempt))
                    /\ h_pc' = "waiting"
                    /\ UNCHANGED <<attempt, callResult>>
               ELSE /\ attempt' = attempt + 1
                    /\ callResult' = Given(AfterLoop(response, error))
                    /\ h_pc' = "done"
                    /\ UNCHANGED delays
    /\ UNCHANGED clientOp
    /\ UNCHANGED nonRetryVars

\* part_010:144-146, 153-156: the back-off timer has fired, the next attempt
\* starts.
BackoffElapses ==
    /\ h_pc = "waiting"
    /\ attempt' = attempt + 1
    /\ h_pc' = "fetching"
    /\ UNCHANGED <<clientOp, history, lastResponse, lastError, delays, callResult>>
    /\ UNCHANGED nonRetryVars

RetryInit ==
    /\ h_pc = "call"
    /\ clientOp = "none"
    /\ attempt = 0
    /\ history = <<>>
    /\ lastResponse = Unset
    /\ lastError = Unset
    /\ delays = <<>>
    /\ callResult = Unset

RetryNext ==
    \/ ClientCall
    \/ FetchSettles
    \/ BackoffElapses

InitRetry ==
    RetryInit /\ RunnerIdle /\ FollowupIdle /\ RecursionIdle /\ AnalyzeIdle /\ MergeIdle
              /\ BodyIdle /\ PlannerIdle /\ FactCheckIdle
              /\ SummarizerIdle
              /\ ExecutorIdle
              /\ ConstructorIdle
              /\ SearchLoopIdle
              /\ ExpansionIdle
              /\ StepIdsIdle
              /\ SharedIdle

SpecRetry == InitRetry /\ [][RetryNext]_vars

\* The attempt ended with a failure that is retried: a 5xx or 429 response
\* (or any other response that is neither ok nor a 4xx), or a thrown error.
Retryable(result) ==
    IF result.response
    THEN ~IsOk(result.status) /\ ~ClientError(result.status)
    ELSE TRUE

\* C23: one client call makes at most 3 HTTP attempts; a 4xx response other
\* than 429 ends the call after that attempt; 5xx and 429 responses and
\* network or timeout failures are retried until the 3 attempts are used
\* up, and then the failure is reported to the caller.
C23_AtMostThreeAttempts ==
    /\ Len(history) <= 3
    /\ \A i \in 1..(Len(history) - 1) : Retryable(history[i])
    /\ (Len(history) > 0 /\ ~Retryable(history[Len(history)])) => h_pc = "done"
    /\ (h_pc = "done" /\ Len(history) > 0 /\ Retryable(history[Len(history)])) =>
          Len(history) = 3
    /\ (h_pc = "done" /\ Len(history) > 0) =>
          /\ callResult.given
          /\ callResult.value.ok <=>
                (history[Len(history)].response /\ IsOk(history[Len(history)].status))

\* A call has used up its attempts on a 5xx response, a 429 response and a
\* network failure, and has rejected.
C23_Witness ==
    /\ h_pc = "done"
    /\ Len(history) = 3
    /\ \E i, j, k \in 1..3 :
         /\ history[i] = Response(503)
         /\ history[j] = Response(429)
         /\ history[k] = FetchError("network")
    /\ callResult.given
    /\ ~callResult.value.ok

\* ---------------------------------------------------------------------------
\* Part 10: ReasoningSummarizer (src/src/clients/summarizer.ts): addReasoning,
\* summarizeBuffer, flush and reset, with calls that overlap.
\* ---------------------------------------------------------------------------

\* summarizer.ts:52: options.bufferThreshold ?? 800
DefaultBufferThreshold == 800

\* summarizer.ts:85: this.buffer.slice(-200)
KeptContext == 200

\* summarizer.ts:99: if (this.buffer.length < 100) return null
MinSummarizable == 100

\* summarizer.ts:151: if (this.buffer.length > 200)
FlushThreshold == 200

\* summarizer.ts:121: summary.length > 5
MinSummaryLength == 5

\* summarizer.ts:123: summary.slice(0, 20)
CacheKeyLength == 20

\* Most addReasoning, flush and reset calls in a run.
MaxSummarizerCalls == 4

\* Most model calls in a run.
MaxChatCalls == 3

\* Date.now() when the summarizer is constructed, in milliseconds.
ClockStart == 5000

\* The last instant looked at.
ClockEnd == ClockStart + 2000

SummarizerOptions(threshold, maxSummaries, minGapSeconds) ==
    [bufferThreshold |-> threshold, maxSummaries |-> maxSummaries,
     minGapSeconds |-> minGapSeconds]

\* The options a caller constructs the summarizer with.
OptionSamples ==
    {SummarizerOptions(t, m, g) :
        t \in {Unset, Given(50)},
        m \in {Unset, Given(1), Given(2)},
        g \in {Unset, Given(2)}}

\* summarizer.ts:50-57 constructor
Constructed(opts) ==
    [bufferThreshold |-> IF opts.bufferThreshold.given THEN opts.bufferThreshold.value
                         ELSE DefaultBufferThreshold,
     maxSummaries |-> opts.maxSummaries,
     minGapMs |-> IF opts.minGapSeconds.given THEN Given(opts.minGapSeconds.value * 1000)
                  ELSE Unset]

\* Lengths of the reasoning texts handed to addReasoning.
TextLengths == {60, 900}

\* What the model answers to a summarization request; the first two differ
\* in case only, the last is too short to be a summary.
SummaryAnswers ==
    {<<"P", "l", "a", "n", "n", "i", "n", "g">>,
     <<"p", "l", "a", "n", "n", "i", "n", "g">>,
     <<"S", "e", "a", "r", "c", "h", "i", "n", "g", " ">>,
     <<" ", "o", "k">>}

\* A limit that applies when the caller has set none.
MaxSummariesReachedByDefault(maxSummaries, count) ==
    count >= (IF maxSummaries.given THEN maxSummaries.value ELSE 1)

\* summarizer.ts:67, 147: this.maxSummaries !== undefined &&
\* this.summaryCount >= this.maxSummaries
MaxSummariesReached(maxSummaries, count) ==
    IF maxSummaries.given THEN count >= maxSummaries.value ELSE FALSE

\* summarizer.ts:77-82: the time-based throttle.
TooSoon(minGapMs, now, last) ==
    IF minGapMs.given THEN now - last < minGapMs.value ELSE FALSE

CacheKey(s) == toLowerCase(SubSeq(s, 1, Min(Len(s), CacheKeyLength)))

\* summarizer.ts:119-130: the summary a settled model call yields, Unset for
\* null: the answer trimmed, unless it is short, the last summary again, or
\* one whose key is cached.
Accepted(content, last, cache) ==
    LET s == trim(content)
    IN IF Len(s) > MinSummaryLength /\ s # last /\ CacheKey(s) \notin cache
       THEN Given(s) ELSE Unset

Step(kind, buffered, issued) == [kind |-> kind, buffered |-> buffered, issued |-> issued]

\* summarizer.ts:50: new ReasoningSummarizer(client, options)
Construct ==
    /\ z_pc = "new"
    /\ \E opts \in OptionSamples : sumOptions' = Given(Constructed(opts))
    /\ z_pc' = "ready"
    /\ lastStep' = Given(Step("constructed", 0, 0))
    /\ UNCHANGED <<bufferLen, lastSummary, summaryCache, summaryCount, lastSummaryTime,
                   clock, pendingAdds, pendingFlushes, produced, chatCalls, sumCalls>>
    /\ UNCHANGED nonSummarizerVars

\* summarizer.ts:63-84, 98-116: addReasoning up to its await: the text is
\* appended, the three checks run, and summarizeBuffer sends its request
\* unless the buffer is shorter than 100.
AddReasoning ==
    /\ z_pc = "ready"
    /\ sumCalls < MaxSummarizerCalls
    /\ \E len \in TextLengths :
         LET buffered == bufferLen + len
             throttled ==
                \/ MaxSummariesReached(sumOptions.value.maxSummaries, summaryCount)
                \/ buffered < sumOptions.value.bufferThreshold
                \/ TooSoon(sumOptions.value.minGapMs, clock, lastSummaryTime)
             asks == ~throttled /\ buffered >= MinSummarizable
         IN /\ asks => chatCalls < MaxChatCalls
            /\ bufferLen' = buffered
            /\ pendingAdds' = IF asks THEN pendingAdds + 1 ELSE pendingAdds
            /\ chatCalls' = IF asks THEN chatCalls + 1 ELSE chatCalls
            /\ lastStep' = Given(Step("addReasoning", buffered, IF asks THEN 1 ELSE 0))
    /\ sumCalls' = sumCalls + 1
    /\ UNCHANGED <<z_pc, sumOptions, lastSummary, summaryCache, summaryCount,
                   lastSummaryTime, clock, pendingFlushes, produced>>
    /\ UNCHANGED nonSummarizerVars

\* summarizer.ts:84-92, 117-139: the request of an addReasoning call has
\* settled (rejected, or answered with a text).
AddReasoningSettles ==
    /\ z_pc = "ready"
    /\ pendingAdds > 0
    /\ \E rejected \in BOOLEAN, content \in SummaryAnswers :
         LET accepted == IF rejected THEN Unset
                        ELSE Accepted(content, lastSummary, summaryCache)
         IN /\ rejected => content = <<" ", "o", "k">>
            /\ bufferLen' = Min(bufferLen, KeptContext)
            /\ IF accepted.given
               THEN /\ summaryCache' = summaryCache \cup {CacheKey(accepted.value)}
                    /\ lastSummary' = accepted.value
                    /\ lastSummaryTime' = clock
                    /\ summaryCount' = summaryCount + 1
                    /\ produced' = produced + 1
               ELSE UNCHANGED <<summaryCache, lastSummary, lastSummaryTime, summaryCount,
                                produced>>
            /\ lastStep' = Given(Step("addReasoning settled", bufferLen,
                                      IF accepted.given THEN 1 ELSE 0))
    /\ pendingAdds' = pendingAdds - 1
    /\ UNCHANGED <<z_pc, sumOptions, clock, pendingFlushes, chatCalls, sumCalls>>
    /\ UNCHANGED nonSummarizerVars

\* summarizer.ts:145-162: flush up to its await.
Flush ==
    /\ z_pc = "ready"
    /\ sumCalls < MaxSummarizerCalls
    /\ LET asks == /\ ~MaxSummariesReached(sumOptions.value.maxSummaries, summaryCount)
                   /\ bufferLen > FlushThreshold
       IN /\ asks => chatCalls < MaxChatCalls
          /\ bufferLen' = IF asks THEN bufferLen ELSE 0
          /\ pendingFlushes' = IF asks THEN pendingFlushes + 1 ELSE pendingFlushes
          /\ chatCalls' = IF asks THEN chatCalls + 1 ELSE chatCalls
          /\ lastStep' = Given(Step("flush", bufferLen, IF asks THEN 1 ELSE 0))
    /\ sumCalls' = sumCalls + 1
    /\ UNCHANGED <<z_pc, sumOptions, lastSummary, summaryCache, summaryCount,
                   lastSummaryTime, clock, pendingAdds, produced>>
    /\ UNCHANGED nonSummarizerVars

\* summarizer.ts:152-157: the request of a flush call has settled.
FlushSettles ==
    /\ z_pc = "ready"
    /\ pendingFlushes > 0
    /\ \E rejected \in BOOLEAN, content \in SummaryAnswers :
         LET accepted == IF rejected THEN Unset
                        ELSE Accepted(content, lastSummary, summaryCache)
         IN /\ rejected => content = <<" ", "o", "k">>
            /\ IF accepted.given
               THEN /\ summaryCache' = summaryCache \cup {CacheKey(accepted.value)}
                    /\ lastSummary' = accepted.value
                    /\ summaryCount' = summaryCount + 1
                    /\ produced' = produced + 1
               ELSE UNCHANGED <<summaryCache, lastSummary, summaryCount, produced>>
            /\ lastStep' = Given(Step("flush settled", 0, IF accepted.given THEN 1 ELSE 0))
    /\ bufferLen' = 0
    /\ pendingFlushes' = pendingFlushes - 1
    /\ UNCHANGED <<z_pc, sumOptions, lastSummaryTime, clock, pendingAdds, chatCalls, sumCalls>>
    /\ UNCHANGED nonSummarizerVars

\* summarizer.ts:167-173 reset
Reset ==
    /\ z_pc = "ready"
    /\ sumCalls < MaxSummarizerCalls
    /\ bufferLen' = 0
    /\ lastSummary' = <<>>
    /\ summaryCache' = {}
    /\ summaryCount' = 0
    /\ lastSummaryTime' = 0
    /\ produced' = 0
    /\ chatCalls' = 0
    /\ sumCalls' = sumCalls + 1
    /\ lastStep' = Given(Step("reset", 0, 0))
    /\ UNCHANGED <<z_pc, sumOptions, clock, pendingAdds, pendingFlushes>>
    /\ UNCHANGED nonSummarizerVars

\* Time passes; it matters to a summarizer with a minimum gap only.
Tick ==
    /\ z_pc = "ready"
    /\ sumOptions.value.minGapMs.given
    /\ clock < ClockEnd
    /\ clock' = clock + 1000
    /\ UNCHANGED <<z_pc, sumOptions, bufferLen, lastSummary, summaryCache, summaryCount,
                   lastSummaryTime, pendingAdds, pendingFlushes, produced, chatCalls,
                   sumCalls, lastStep>>
    /\ UNCHANGED nonSummarizerVars

SummarizerInit ==
    /\ z_pc = "new"
    /\ sumOptions = Unset
    /\ bufferLen = 0
    /\ lastSummary = <<>>
    /\ summaryCache = {}
    /\ summaryCount = 0
    /\ lastSummaryTime = 0
    /\ clock = ClockStart
    /\ pendingAdds = 0
    /\ pendingFlushes = 0
    /\ produced = 0
    /\ chatCalls = 0
    /\ sumCalls = 0
    /\ lastStep = Unset

SummarizerNext ==
    \/ Construct
    \/ AddReasoning
    \/ AddReasoningSettles
    \/ Flush
    \/ FlushSettles
    \/ Reset
    \/ Tick

InitSummarizer ==
    SummarizerInit /\ RunnerIdle /\ FollowupIdle /\ RecursionIdle /\ AnalyzeIdle
                   /\ MergeIdle /\ BodyIdle /\ PlannerIdle /\ FactCheckIdle /\ RetryIdle
                   /\ ExecutorIdle
                   /\ ConstructorIdle
                   /\ SearchLoopIdle
                   /\ ExpansionIdle
                   /\ StepIdsIdle
                   /\ SharedIdle

SpecSummarizer == InitSummarizer /\ [][SummarizerNext]_vars

\* C24: a summarizer created with maxSummaries = M produces at most M
\* summaries between two reset calls, also when addReasoning and flush calls
\* overlap.
C24_AtMostMaxSummaries ==
    (z_pc = "ready" /\ sumOptions.value.maxSummaries.given) =>
        produced <= sumOptions.value.maxSummaries.value

\* The summarizer was created with neither maxSummaries nor minGapSeconds.
Unlimited ==
    /\ z_pc = "ready"
    /\ ~sumOptions.value.maxSummaries.given
    /\ ~sumOptions.value.minGapMs.given

\* The fields of the summarizer are those of a new one.
FieldsInitial ==
    /\ bufferLen = 0
    /\ lastSummary = <<>>
    /\ summaryCache = {}
    /\ summaryCount = 0
    /\ lastSummaryTime = 0

MaxExecSteps == 3

\* Most follow-up searches of one gap round.
MaxFollowUpSearches == 2

ProgressCall(index, status) == [index |-> index, status |-> status]

StepResult(index) == [step |-> index, status |-> "complete"]

\* The results in the order the searches settled.
ResultsAsSettled(order, n) == [i \in 1..Len(order) |-> StepResult(order[i])]

\* part_008:88-89: Promise.all gives the results in the order of the
\* promises, which is the order of plan.steps.
ResultsOfPromiseAll(order, n) == [i \in 1..n |-> StepResult(i - 1)]

ExecResolved(list) == [ok |-> TRUE, results |-> list]

ExecRejected == [ok |-> FALSE, results |-> <<>>]

\* search.ts:167, 288, 360-368: a rejection of executeAll or of a follow-up
\* search reaches the catch of the command, which reports it and exits.
CommandAfterRejection(phase) == "exit"

\* part_008:41-61: executeAll runs the mapper for every step in plan order
\* up to its await: the step is inProgress, onProgress is called, the search
\* is issued.
ExecuteAll ==
    /\ x_pc = "call"
    /\ \E n \in 1..MaxExecSteps :
         /\ execStatuses' = [i \in 1..n |-> "inProgress"]
         /\ searchesIssued' = [i \in 1..n |-> i - 1]
         /\ progressCalls' = [i \in 1..n |-> ProgressCall(i - 1, "inProgress")]
    /\ x_pc' = "searching"
    /\ UNCHANGED <<settleOrder, execResult, followUpStatuses, commandResults>>
    /\ UNCHANGED nonExecutorVars

\* part_008:63-79, 88-91: the search of a step has resolved; with the last
\* one executeAll resolves.
StepSearchResolves ==
    /\ x_pc \in {"searching", "followups", "synthesis", "report"}
    /\ \E i \in 1..Len(execStatuses) :
         /\ execStatuses[i] = "inProgress"
         /\ execStatuses' = [execStatuses EXCEPT ![i] = "complete"]
         /\ progressCalls' = Append(progressCalls, ProgressCall(i - 1, "complete"))
         /\ settleOrder' = Append(settleOrder, i - 1)
         /\ IF \A j \in 1..Len(execStatuses) : j # i => execStatuses[j] = "complete"
            THEN execResult' =
                    Given(ExecResolved(ResultsOfPromiseAll(Append(settleOrder, i - 1),
                                                           Len(execStatuses))))
            ELSE execResult' = execResult
    /\ UNCHANGED <<x_pc, searchesIssued, followUpStatuses, commandResults>>
    /\ UNCHANGED nonExecutorVars

\* part_008:80-84, 88: the search of a step has rejected; the first
\* rejection rejects executeAll.
StepSearchRejects ==
    /\ x_pc \in {"searching", "followups", "synthesis", "report"}
    /\ \E i \in 1..Len(execStatuses) :
         /\ execStatuses[i] = "inProgress"
         /\ execStatuses' = [execStatuses EXCEPT ![i] = "error"]
         /\ progressCalls' = Append(progressCalls, ProgressCall(i - 1, "error"))
         /\ settleOrder' = Append(settleOrder, i - 1)
    /\ execResult' = IF execResult.given THEN execResult ELSE Given(ExecRejected)
    /\ UNCHANGED <<x_pc, searchesIssued, followUpStatuses, commandResults>>
    /\ UNCHANGED nonExecutorVars

\* search.ts:167-178, 288: the await of executeAll has settled; the command
\* goes on to its follow-up searches, or its catch ends the run.
ExecuteAllSettles ==
    /\ x_pc = "searching"
    /\ execResult.given
    /\ IF execResult.value.ok
       THEN /\ commandResults' = Given(execResult.value.results)
            /\ \E n \in 0..MaxFollowUpSearches :
                 /\ followUpStatuses' = [i \in 1..n |-> "searching"]
                 /\ x_pc' = IF n = 0 THEN "synthesis" ELSE "followups"
       ELSE /\ x_pc' = CommandAfterRejection("searching")
            /\ commandResults' = commandResults
            /\ followUpStatuses' = followUpStatuses
    /\ UNCHANGED <<execStatuses, searchesIssued, progressCalls, settleOrder, execResult>>
    /\ UNCHANGED nonExecutorVars

\* search.ts:288-326: a follow-up search has settled; a rejection rejects the
\* Promise.all of the round, after the last one the results are appended.
FollowUpSettles ==
    /\ x_pc = "followups"
    /\ \E i \in 1..Len(followUpStatuses), ok \in BOOLEAN :
         /\ followUpStatuses[i] = "searching"
         /\ followUpStatuses' = [followUpStatuses EXCEPT ![i] = IF ok THEN "ok" ELSE "failed"]
         /\ IF ~ok
            THEN /\ x_pc' = CommandAfterRejection("followups")
                 /\ commandResults' = commandResults
            ELSE IF \A j \in 1..Len(followUpStatuses) : j # i => followUpStatuses[j] = "ok"
            THEN /\ x_pc' = "synthesis"
                 /\ commandResults' =
                       Given(commandResults.value
                             \o [j \in 1..Len(followUpStatuses) |->
                                   StepResult(Len(execStatuses) + j - 1)])
            ELSE UNCHANGED <<x_pc, commandResults>>
    /\ UNCHANGED <<execStatuses, searchesIssued, progressCalls, settleOrder, execResult>>
    /\ UNCHANGED nonExecutorVars

\* search.ts:332-358: the report is synthesized from the results.
Synthesize ==
    /\ x_pc = "synthesis"
    /\ x_pc' = "report"
    /\ UNCHANGED <<execStatuses, searchesIssued, progressCalls, settleOrder, execResult,
                   followUpStatuses, commandResults>>
    /\ UNCHANGED nonExecutorVars

ExecutorInit ==
    /\ x_pc = "call"
    /\ execStatuses = <<>>
    /\ searchesIssued = <<>>
    /\ progressCalls = <<>>
    /\ settleOrder = <<>>
    /\ execResult = Unset
    /\ followUpStatuses = <<>>
    /\ commandResults = Unset

ExecutorNext ==
    \/ ExecuteAll
    \/ StepSearchResolves
    \/ StepSearchRejects
    \/ ExecuteAllSettles
    \/ FollowUpSettles
    \/ Synthesize

InitExecutor ==
    ExecutorInit /\ RunnerIdle /\ FollowupIdle /\ RecursionIdle /\ AnalyzeIdle
                 /\ MergeIdle /\ BodyIdle /\ PlannerIdle /\ FactCheckIdle /\ RetryIdle
                 /\ SummarizerIdle
                 /\ ConstructorIdle
                 /\ SearchLoopIdle
                 /\ ExpansionIdle
                 /\ StepIdsIdle
                 /\ SharedIdle

SpecExecutor == InitExecutor /\ [][ExecutorNext]_vars

\* The statuses onProgress was called with for the step of this index.
ProgressOf(index) ==
    LET Of(c) == c.index = index
        calls == SelectSeq(progressCalls, Of)
    IN [i \in 1..Len(calls) |-> calls[i].status]

\* C26: executeAll issues exactly one search per plan step; when all
\* searches succeed it resolves with one result per step in plan order; each
\* step goes pending, inProgress, complete, and onProgress is called at each
\* transition with the step's index.
C26_OneSearchPerStepInPlanOrder ==
    x_pc # "idle" /\ x_pc # "call" =>
        LET n == Len(execStatuses)
        IN /\ searchesIssued = [i \in 1..n |-> i - 1]
           /\ \A i \in 1..n :
                /\ ProgressOf(i - 1) \in {<<"inProgress">>, <<"inProgress", "complete">>,
                                          <<"inProgress", "error">>}
                /\ execStatuses[i] = ProgressOf(i - 1)[Len(ProgressOf(i - 1))]
           /\ (\A i \in 1..n : execStatuses[i] = "complete") =>
                /\ execResult.given
                /\ execResult.value.ok
                /\ Len(execResult.value.results) = n
                /\ \A i \in 1..n : execResult.value.results[i].step = i - 1
                /\ \A i \in 1..n : ProgressOf(i - 1) = <<"inProgress", "complete">>

\* All three searches of a plan have succeeded, the last step's first.
C26_Witness ==
    /\ Len(execStatuses) = 3
    /\ \A i \in 1..3 : execStatuses[i] = "complete"
    /\ settleOrder[1] = 2
    /\ execResult.given

\* C27: a failed search for one sub-question is a partial failure: the
\* results of the other steps are still handed on, only the failed step is
\* marked error, and the run proceeds to synthesis and produces the report.
C27_PartialFailureStillReports ==
    (x_pc \in {"exit", "report"} /\ \E i \in 1..Len(execStatuses) : execStatuses[i] = "error")
        => /\ x_pc = "report"
           /\ commandResults.given

\* ---------------------------------------------------------------------------
\* Part 12: the limits of a SubResearchAgent as its constructor derives them
\* from its options and the environment (src/src/agent/sub-agent.ts:135-173,
\* src/unnamed/part_003:7-46).
\* ---------------------------------------------------------------------------

\* sub-agent.ts:12
DEFAULT_MAX_SEARCH_ROUNDS == 5

\* sub-agent.ts:14
DEFAULT_MAX_EXPANDED_URLS == 5

\* sub-agent.ts:15
HARD_MAX_EXPANDED_URLS == 50

\* Values of the type number: the integers, and the three that are not finite.
Finite(n) == [kind |-> "finite", value |-> n]

PositiveInfinity == [kind |-> "Infinity"]

NegativeInfinity == [kind |-> "-Infinity"]

NaN == [kind |-> "NaN"]

\* A finite number that is no integer (its value is never used).
Fraction == [kind |-> "fraction"]

\* Number.isFinite
IsFinite(x) == x.kind \in {"finite", "fraction"}

\* a <= b for numbers other than NaN and fractions.
NumberLeq(a, b) ==
    \/ a.kind = "-Infinity"
    \/ b.kind = "Infinity"
    \/ a.kind = "finite" /\ b.kind = "finite" /\ a.value <= b.value

\* Math.max, Math.min: NaN if an argument is NaN.
MathMax(a, b) == IF a.kind = "NaN" \/ b.kind = "NaN" THEN NaN
                 ELSE IF NumberLeq(a, b) THEN b ELSE a

MathMin(a, b) == IF a.kind = "NaN" \/ b.kind = "NaN" THEN NaN
                 ELSE IF NumberLeq(a, b) THEN a ELSE b

RECURSIVE AllZeros(_, _)
AllZeros(t, i) == i > Len(t) \/ (t[i] = "0" /\ AllZeros(t, i + 1))

\* Number(text) for a trimmed, non-empty text: an optional sign, digits and
\* an optional fraction give a finite number, every other text tried NaN.
NumberOfText(t) ==
    LET signed == At(t, 1) \in {"-", "+"}
        first == IF signed THEN 2 ELSE 1
        after == DigitsEnd(t, first)
        magnitude == DigitsValue(t, first, after, 0)
        whole == Finite(IF At(t, 1) = "-" THEN 0 - magnitude ELSE magnitude)
    IN IF after = first THEN NaN
       ELSE IF after = Len(t) + 1 THEN whole
       ELSE IF t[after] = "." /\ DigitsEnd(t, after + 1) = Len(t) + 1
       THEN (IF AllZeros(t, after + 1) THEN whole ELSE Fraction)
       ELSE NaN

\* part_003:7-13
envOptionalNumber(value) ==
    IF ~value.given THEN Unset
    ELSE IF trim(value.value) = <<>> THEN Unset
    ELSE LET parsed == NumberOfText(trim(value.value))
         IN IF IsFinite(parsed) THEN Given(parsed) ELSE Unset

\* part_003:15-19: the integer, for envNonNegativeInt and envIntOrInfinity.
envOptionalInt(value) ==
    LET parsed == envOptionalNumber(value)
    IN IF ~parsed.given THEN Unset
       ELSE IF parsed.value.kind = "finite" THEN Given(parsed.value.value) ELSE Unset

UnlimitedWords == {<<"u", "n", "l", "i", "m", "i", "t", "e", "d">>,
                   <<"i", "n", "f", "i", "n", "i", "t", "e">>,
                   <<"i", "n", "f">>}

\* part_003:33-46
envIntOrInfinity(value, defaultValue) ==
    LET trimmed == IF value.given THEN trim(value.value) ELSE <<>>
        parsed == envOptionalInt(Given(trimmed))
    IN IF trimmed = <<>> THEN Finite(defaultValue)
       ELSE IF toLowerCase(trimmed) \in UnlimitedWords THEN PositiveInfinity
       ELSE IF ~parsed.given THEN Finite(defaultValue)
       ELSE IF parsed.value < 0 THEN PositiveInfinity
       ELSE Finite(parsed.value)

\* What the caller and the environment supply for one limit.
Supplied(option, env) == [option |-> option, env |-> env]

\* sub-agent.ts:136-142
EffectiveMaxExpandedUrls(s) ==
    LET rawMaxExpanded == IF s.option.given THEN s.option.value
                          ELSE envIntOrInfinity(s.env, DEFAULT_MAX_EXPANDED_URLS)
    IN MathMin(MathMax(Finite(0), IF IsFinite(rawMaxExpanded) THEN rawMaxExpanded
                                  ELSE Finite(HARD_MAX_EXPANDED_URLS)),
               Finite(HARD_MAX_EXPANDED_URLS))

\* sub-agent.ts:149-157
EffectiveMaxSearchRounds(s) ==
    LET rawMaxRounds == IF s.option.given THEN s.option.value
                        ELSE envIntOrInfinity(s.env, DEFAULT_MAX_SEARCH_ROUNDS)
    IN MathMin(MathMax(Finite(1), IF IsFinite(rawMaxRounds) THEN rawMaxRounds
                                  ELSE Finite(HARD_MAX_SEARCH_ROUNDS)),
               Finite(HARD_MAX_SEARCH_ROUNDS))

\* sub-agent.ts:170-173
EffectiveMaxRecursionDepth(s) ==
    LET rawMaxDepth == IF s.option.given THEN s.option.value
                       ELSE Finite(envNonNegativeInt(envOptionalInt(s.env),
                                                     DEFAULT_MAX_RECURSION_DEPTH))
    IN MathMin(MathMax(Finite(0), rawMaxDepth), Finite(HARD_MAX_RECURSION_DEPTH))

\* The numbers tried as constructor options.
OptionNumbers ==
    {Finite(n) : n \in {0 - 1, 0, 1, 3, 5, 50, 51}}
        \cup {PositiveInfinity, NegativeInfinity, NaN}

\* The texts tried as values of the environment variables.
EnvTexts ==
    {<<>>, <<"u", "n", "l", "i", "m", "i", "t", "e", "d">>, <<" ", "i", "n", "f", " ">>,
     <<"-", "1">>, <<"0">>, <<"3">>, <<" ", "5", "0">>, <<"5", "1">>,
     <<"a", "b", "c">>, <<"2", ".", "5">>, <<"3", ".", "0">>}

SuppliedSamples ==
    {Supplied(Unset, Unset), Supplied(Given(Finite(3)), Given(<<"5", "1">>))}
        \cup {Supplied(Given(x), Unset) : x \in OptionNumbers}
        \cup {Supplied(Unset, Given(t)) : t \in EnvTexts}

\* sub-agent.ts:109-174: new SubResearchAgent(chatClient, exaClient, options)
ConstructAgent ==
    /\ o_pc = "new"
    /\ agentLimits' =
          Given([maxSearchRounds |-> EffectiveMaxSearchRounds(ctorSupplied.maxSearchRounds),
                 maxExpandedUrls |-> EffectiveMaxExpandedUrls(ctorSupplied.maxExpandedUrls),
                 maxRecursionDepth |->
                    EffectiveMaxRecursionDepth(ctorSupplied.maxRecursionDepth)])
    /\ o_pc' = "constructed"
    /\ UNCHANGED ctorSupplied
    /\ UNCHANGED nonConstructorVars

ConstructorInit ==
    /\ o_pc = "new"
    /\ ctorSupplied \in [maxSearchRounds : SuppliedSamples,
                         maxExpandedUrls : SuppliedSamples,
                         maxRecursionDepth : SuppliedSamples]
    /\ agentLimits = Unset

ConstructorNext == ConstructAgent

InitConstructor ==
    ConstructorInit /\ RunnerIdle /\ FollowupIdle /\ RecursionIdle /\ AnalyzeIdle
                    /\ MergeIdle /\ BodyIdle /\ PlannerIdle /\ FactCheckIdle /\ RetryIdle
                    /\ SummarizerIdle /\ ExecutorIdle
                    /\ SearchLoopIdle
                    /\ ExpansionIdle
                    /\ StepIdsIdle
                    /\ SharedIdle

SpecConstructor == InitConstructor /\ [][ConstructorNext]_vars

\* The decimal text of a number 0..99.
DecimalText(n) == IF n < 10 THEN DigitText(n) ELSE DigitText(n \div 10) \o DigitText(n % 10)

\* The limit is an integer of lo..hi; a number of lo..hi supplied as option,
\* or as environment variable without an option, is the limit; the limit is
\* the default when nothing is supplied.
LimitAsClaimed(limit, s, lo, hi, defaultValue) ==
    /\ limit.kind = "finite"
    /\ limit.value \in lo..hi
    /\ \A n \in lo..hi :
         \/ s.option = Given(Finite(n))
         \/ (~s.option.given /\ s.env = Given(DecimalText(n)))
         => limit.value = n
    /\ (~s.option.given /\ ~s.env.given) => limit.value = defaultValue

MaxLoopRounds == 3

\* sub-agent.ts:214: step.searchQuery || step.question
InitialQuery(searchQuery, question) == IF searchQuery # <<>> THEN searchQuery ELSE question

\* The step.searchQuery and step.question texts tried.
StepSearchQueries == {<<>>, <<" ">>, <<"a">>, <<" ", "A", " ", " ", "b">>}

StepQuestions == {<<" ">>, <<"b">>}

\* The query texts a model answer carries.
AnswerQueries ==
    {<<>>, <<" ">>, <<"a">>, <<"A", " ">>, <<"a", " ", "b">>, <<"b">>, <<"B", "a">>}

\* sub-agent.ts:474-476, 484-486: the query of a parsed answer, trimmed, or
\* null if it is empty; null also for a failed request.
suggestFollowUpQuery(answer) ==
    IF ~answer.given THEN Unset
    ELSE IF trim(answer.value) = <<>> THEN Unset ELSE Given(trim(answer.value))

\* Variant of MaySearch that searches whatever the key is.
MaySearchAnyKey(key, used) == TRUE

\* sub-agent.ts:217: if (!key || usedQueryKeys.has(key)) break
MaySearch(key, used) == key # <<>> /\ key \notin used

\* Variant of SuggestionWanted that asks after every round.
SuggestionWantedAlways(r, limit) == TRUE

\* sub-agent.ts:241: if (round >= this.maxSearchRounds) break
SuggestionWanted(r, limit) == r < limit

LogEntry(kind, r, query) == [kind |-> kind, round |-> r, query |-> query]

\* sub-agent.ts:215-229: the head of the loop for round r with this query:
\* the loop is left, or the query is recorded and its search issued.
LoopHead(r, query) ==
    IF r <= loopLimit /\ MaySearch(normalizeQueryKey(query), usedQueryKeys)
    THEN /\ usedQueryKeys' = usedQueryKeys \cup {normalizeQueryKey(query)}
         /\ queriesUsed' = Append(queriesUsed, query)
         /\ l_pc' = "searching"
    ELSE /\ UNCHANGED <<usedQueryKeys, queriesUsed>>
         /\ l_pc' = "left"

\* sub-agent.ts:214-229: research(step) is called and reaches the loop.
Research ==
    /\ l_pc = "call"
    /\ loopRound' = 1
    /\ LoopHead(1, currentQuery)
    /\ loopLog' = IF l_pc' = "searching"
                  THEN Append(loopLog, LogEntry("search", 1, Given(currentQuery)))
                  ELSE loopLog
    /\ UNCHANGED <<loopLimit, currentQuery>>
    /\ UNCHANGED nonSearchLoopVars

\* sub-agent.ts:229-244: the search resolves and its results are merged;
\* unless this was the last round a follow-up query is asked for.
SearchSettles ==
    /\ l_pc = "searching"
    /\ LET merged == Append(loopLog, LogEntry("merged", loopRound, Given(currentQuery)))
       IN IF SuggestionWanted(loopRound, loopLimit)
          THEN /\ l_pc' = "suggesting"
               /\ loopLog' = Append(merged, LogEntry("suggest", loopRound, Unset))
          ELSE /\ l_pc' = "left"
               /\ loopLog' = merged
    /\ UNCHANGED <<loopLimit, currentQuery, usedQueryKeys, queriesUsed, loopRound>>
    /\ UNCHANGED nonSearchLoopVars

\* sub-agent.ts:229: the search rejects, and with it research().
SearchFails ==
    /\ l_pc = "searching"
    /\ l_pc' = "rejected"
    /\ loopLog' = Append(loopLog, LogEntry("failed", loopRound, Given(currentQuery)))
    /\ UNCHANGED <<loopLimit, currentQuery, usedQueryKeys, queriesUsed, loopRound>>
    /\ UNCHANGED nonSearchLoopVars

\* sub-agent.ts:244-249, 215-229: the suggestion comes back; a query with an
\* unused key starts the next round, anything else ends the loop.
SuggestionSettles ==
    /\ l_pc = "suggesting"
    /\ \E answer \in {Unset} \cup {Given(q) : q \in AnswerQueries} :
         LET nextQuery == suggestFollowUpQuery(answer)
             received == Append(loopLog, LogEntry("suggested", loopRound, nextQuery))
         IN IF ~nextQuery.given
            THEN /\ l_pc' = "left"
                 /\ loopLog' = received
                 /\ UNCHANGED <<currentQuery, usedQueryKeys, queriesUsed, loopRound>>
            ELSE IF normalizeQueryKey(nextQuery.value) = <<>>
                    \/ normalizeQueryKey(nextQuery.value) \in usedQueryKeys
            THEN /\ l_pc' = "left"
                 /\ loopLog' = received
                 /\ UNCHANGED <<currentQuery, usedQueryKeys, queriesUsed, loopRound>>
            ELSE /\ currentQuery' = nextQuery.value
                 /\ loopRound' = loopRound + 1
                 /\ LoopHead(loopRound + 1, nextQuery.value)
                 /\ loopLog' = IF l_pc' = "searching"
                               THEN Append(received,
                                           LogEntry("search", loopRound + 1, nextQuery))
                               ELSE received
    /\ UNCHANGED loopLimit
    /\ UNCHANGED nonSearchLoopVars

SearchLoopInit ==
    /\ l_pc = "call"
    /\ loopLimit \in 1..MaxLoopRounds
    /\ \E searchQuery \in StepSearchQueries, question \in StepQuestions :
         currentQuery = InitialQuery(searchQuery, question)
    /\ usedQueryKeys = {}
    /\ queriesUsed = <<>>
    /\ loopRound = 0
    /\ loopLog = <<>>

SearchLoopNext ==
    \/ Research
    \/ SearchSettles
    \/ SearchFails
    \/ SuggestionSettles

InitSearchLoop ==
    SearchLoopInit /\ RunnerIdle /\ FollowupIdle /\ RecursionIdle /\ AnalyzeIdle
                   /\ MergeIdle /\ BodyIdle /\ PlannerIdle /\ FactCheckIdle /\ RetryIdle
                   /\ SummarizerIdle /\ ExecutorIdle /\ ConstructorIdle
                   /\ ExpansionIdle
                   /\ StepIdsIdle
                   /\ SharedIdle

SpecSearchLoop == InitSearchLoop /\ [][SearchLoopNext]_vars

\* Positions in the log of the entries of a kind.
LogPositions(kind) == {i \in 1..Len(loopLog) : loopLog[i].kind = kind}

\* C29: one research() issues at most maxSearchRounds searches and at most
\* maxSearchRounds - 1 follow-up suggestion calls; the search of round N+1
\* starts only after the results of round N were merged, and no suggestion
\* is asked for after the final round.
C29_RoundsAndSuggestionsBounded ==
    l_pc # "idle" =>
        /\ Cardinality(LogPositions("search")) <= loopLimit
        /\ Cardinality(LogPositions("suggest")) <= loopLimit - 1
        /\ \A i \in LogPositions("search") :
             /\ loopLog[i].round \in 1..loopLimit
             /\ loopLog[i].round > 1 =>
                  \E j \in LogPositions("merged") :
                     j < i /\ loopLog[j].round = loopLog[i].round - 1
             /\ \A j \in LogPositions("search") :
                  j < i => loopLog[j].round < loopLog[i].round
        /\ \A i \in LogPositions("suggest") : loopLog[i].round < loopLimit

\* The loop ran all of its three rounds, with a suggestion after the first two.
C29_Witness ==
    /\ l_pc = "left"
    /\ loopLimit = 3
    /\ Cardinality(LogPositions("search")) = 3
    /\ Cardinality(LogPositions("suggest")) = 2
    /\ loopLog[Len(loopLog)].kind = "merged"

\* Keys of the queries whose search was issued before position i of the log.
KeysSearchedBefore(i) ==
    {normalizeQueryKey(loopLog[j].query.value) : j \in {p \in LogPositions("search") : p < i}}

\* C30: within one research() no two searches use queries with the same
\* normalized key, and a query with an empty key is never searched; a
\* suggested query that is empty or repeats a used key ends the loop
\* without error.
C30_NoRepeatedOrEmptyQuery ==
    l_pc # "idle" =>
        /\ \A i \in LogPositions("search") :
             /\ normalizeQueryKey(loopLog[i].query.value) # <<>>
             /\ normalizeQueryKey(loopLog[i].query.value) \notin KeysSearchedBefore(i)
        /\ \A i \in LogPositions("suggested") :
             (\/ ~loopLog[i].query.given
              \/ normalizeQueryKey(loopLog[i].query.value) \in KeysSearchedBefore(i))
                => i = Len(loopLog) /\ l_pc = "left"
        /\ l_pc = "rejected" => loopLog[Len(loopLog)].kind = "failed"

\* After two searches the model suggests the first query again in other
\* letters, and the loop is left.
C30_Witness ==
    /\ l_pc = "left"
    /\ Cardinality(LogPositions("search")) = 2
    /\ loopLog[Len(loopLog)].kind = "suggested"
    /\ loopLog[Len(loopLog)].query.given
    /\ loopLog[Len(loopLog)].query.value \notin {queriesUsed[i] : i \in 1..Len(queriesUsed)}
    /\ normalizeQueryKey(loopLog[Len(loopLog)].query.value) = normalizeQueryKey(queriesUsed[1])

\* ---------------------------------------------------------------------------
\* Part 14: the source expansion of SubResearchAgent.research
\* (src/src/agent/sub-agent.ts:253-263, 352-387). URLs are character
\* sequences; the model's answer is the array it would parse to.
\* ---------------------------------------------------------------------------

\* Longest array of URLs in a model answer.
MaxAnswerUrls == 3

\* An element of the parsed array: a string or something else.
AnswerString(t) == [isString |-> TRUE, text |-> t]

AnswerOther == [isString |-> FALSE, text |-> <<>>]

\* URLs of search results, and one that no search returned.
ResultUrls == <<<<"1">>, <<"2">>, <<"3">>>>

ForeignUrl == <<"9">>

AnswerElements ==
    {AnswerString(<<"1">>), AnswerString(<<" ", "2">>), AnswerString(<<"3">>),
     AnswerString(ForeignUrl), AnswerString(<<" ">>), AnswerOther}

RECURSIVE SequencesUpTo(_, _)
\* The sequences over a set of at most n elements' length.
SequencesUpTo(S, n) ==
    IF n = 0 THEN {<<>>}
    ELSE LET shorter == SequencesUpTo(S, n - 1)
         IN shorter \cup {Append(q, x) : q \in shorter, x \in S}

\* Array.prototype.slice(0, n)
FirstN(q, n) == SubSeq(q, 1, Min(Len(q), Max(n, 0)))

\* sub-agent.ts:377-381: strings only, trimmed, not empty, at most
\* maxExpandedUrls of them.
KeptUrls(parsed, maxExpandedUrls) ==
    LET IsText(x) == x.isString
        strings == SelectSeq(parsed, IsText)
        trimmed == [i \in 1..Len(strings) |-> trim(strings[i].text)]
        NotEmpty(t) == t # <<>>
    IN FirstN(SelectSeq(trimmed, NotEmpty), maxExpandedUrls)

\* sub-agent.ts:356: the sources the model is shown.
Candidates(sources, expansionCandidates) == FirstN(sources, expansionCandidates)

\* sub-agent.ts:254: if (expandSources && this.maxExpandedUrls > 0 && searchResults.length > 0)
ExpansionEntered(opts, sources) ==
    opts.expandSources /\ opts.maxExpandedUrls > 0 /\ Len(sources) > 0

\* sub-agent.ts:353: identifySourcesForExpansion returns [] without a request.
NoRequestNeeded(opts) == opts.maxExpandedUrls <= 0 \/ opts.expansionCandidates <= 0

\* sub-agent.ts:253-256, 352-366: the search loop is left; the selection
\* request is sent, or the analysis starts.
LeaveLoop ==
    /\ u_pc = "loopLeft"
    /\ IF ExpansionEntered(expansionOptions.value, foundSources)
          /\ ~NoRequestNeeded(expansionOptions.value)
       THEN /\ u_pc' = "selecting"
            /\ selectionCalls' =
                  Append(selectionCalls,
                         Candidates(foundSources, expansionOptions.value.expansionCandidates))
       ELSE /\ u_pc' = "analysis"
            /\ selectionCalls' = selectionCalls
    /\ UNCHANGED <<expansionOptions, foundSources, contentsCalls>>
    /\ UNCHANGED nonExpansionVars

\* sub-agent.ts:366-386, 257-261: the selection comes back with an array;
\* getContents is called with the URLs kept, if there are any.
SelectionAnswers ==
    /\ u_pc = "selecting"
    /\ \E parsed \in SequencesUpTo(AnswerElements, MaxAnswerUrls) :
         LET urls == KeptUrls(parsed, expansionOptions.value.maxExpandedUrls)
         IN IF Len(urls) > 0
            THEN /\ u_pc' = "reading"
                 /\ contentsCalls' = Append(contentsCalls, urls)
            ELSE /\ u_pc' = "analysis"
                 /\ contentsCalls' = contentsCalls
    /\ UNCHANGED <<expansionOptions, foundSources, selectionCalls>>
    /\ UNCHANGED nonExpansionVars

\* sub-agent.ts:369-370, 382-386: no content, no array in it, or the request
\* or JSON.parse threw: no URL is expanded.
SelectionFails ==
    /\ u_pc = "selecting"
    /\ u_pc' = "analysis"
    /\ UNCHANGED <<expansionOptions, foundSources, selectionCalls, contentsCalls>>
    /\ UNCHANGED nonExpansionVars

\* sub-agent.ts:261: getContents settles.
ReadingSettles ==
    /\ u_pc = "reading"
    /\ u_pc' \in {"analysis", "rejected"}
    /\ UNCHANGED <<expansionOptions, foundSources, selectionCalls, contentsCalls>>
    /\ UNCHANGED nonExpansionVars

ExpansionInit ==
    /\ u_pc = "loopLeft"
    /\ expansionOptions \in {Given([expandSources |-> b, maxExpandedUrls |-> m,
                                    expansionCandidates |-> c]) :
                                b \in BOOLEAN, m \in 0..2, c \in 0..2}
    /\ foundSources \in {FirstN(ResultUrls, n) : n \in 0..3}
    /\ selectionCalls = <<>>
    /\ contentsCalls = <<>>

ExpansionNext ==
    \/ LeaveLoop
    \/ SelectionAnswers
    \/ SelectionFails
    \/ ReadingSettles

InitExpansion ==
    ExpansionInit /\ RunnerIdle /\ FollowupIdle /\ RecursionIdle
                 /\ AnalyzeIdle /\ MergeIdle /\ BodyIdle /\ PlannerIdle
                 /\ FactCheckIdle /\ RetryIdle /\ SummarizerIdle
                 /\ ExecutorIdle /\ ConstructorIdle /\ SearchLoopIdle
                 /\ StepIdsIdle
                 /\ SharedIdle

SpecExpansion == InitExpansion /\ [][ExpansionNext]_vars

Elements(q) == {q[i] : i \in 1..Len(q)}

\* The count and the switches of claim C31, without the origin of the URLs.
ExpansionWithinLimits ==
    u_pc # "idle" =>
        /\ Len(contentsCalls) <= 1
        /\ \A i \in 1..Len(contentsCalls) :
             Len(contentsCalls[i]) \in 1..expansionOptions.value.maxExpandedUrls
        /\ (~expansionOptions.value.expandSources
            \/ expansionOptions.value.maxExpandedUrls = 0)
              => selectionCalls = <<>> /\ contentsCalls = <<>>

\* C31: getContents is called with at most maxExpandedUrls URLs, each the
\* URL of one of the top expansionCandidates search results of the
\* invocation; with expansion disabled or maxExpandedUrls = 0 there is no
\* selection call and no getContents call.
C31_ExpandsOnlyTopCandidates ==
    /\ ExpansionWithinLimits
    /\ \A i \in 1..Len(contentsCalls) :
         Elements(contentsCalls[i])
            \subseteq Elements(Candidates(foundSources,
                                          expansionOptions.value.expansionCandidates))

\* ---------------------------------------------------------------------------
\* Part 15: the ids the follow-up steps get and what is done with plan.steps
\* (src/unnamed/part_002:1112-1120, src/src/agent/interactive/ui.ts:341-347,
\* src/src/commands/search.ts:309-322).
\* ---------------------------------------------------------------------------

\* Most follow-up rounds of a run.
MaxIdRounds == 3

\* Most follow-up steps of a round.
MaxGapBatch == 2

\* Most steps of the initial plan.
MaxInitialSteps == 3

\* part_002:1113: id: plan.steps.length + i + 1
DeepStepId(ids, reports, i) == Len(ids) + i + 1

\* ui.ts:342: id: plan.steps.length + allReports.length + i + 1
CoordinatorStepId(ids, reports, i) == Len(ids) + reports + i + 1

\* search.ts:310, 319: each step gets plan.steps.length + 1 and is pushed
\* before the next one is made.
SearchStepId(ids, reports, i) == Len(ids) + i + 1

\* The ids of the n follow-up steps of a round (i counts from 0).
NewStepIds(where, ids, reports, n) ==
    [k \in 1..n |-> IF where = "deep" THEN DeepStepId(ids, reports, k - 1)
                    ELSE IF where = "coordinator" THEN CoordinatorStepId(ids, reports, k - 1)
                    ELSE SearchStepId(ids, reports, k - 1)]

\* search.ts:319 plan.steps.push(step); the orchestrators hand the new steps
\* to runParallelResearch and leave plan.steps as it is.
PlanAfterRound(where, ids, new) == IF where = "search" THEN ids \o new ELSE ids

\* A follow-up round creates its steps and runs them.
FollowUpBatch ==
    /\ j_pc = "loop"
    /\ idRounds < MaxIdRounds
    /\ \E n \in 1..MaxGapBatch :
         LET new == NewStepIds(idSite, planStepIds, reportCount, n)
         IN /\ followUpIds' = followUpIds \o new
            /\ planStepIds' = PlanAfterRound(idSite, planStepIds, new)
            /\ reportCount' = reportCount + n
    /\ idRounds' = idRounds + 1
    /\ UNCHANGED <<j_pc, idSite>>
    /\ UNCHANGED nonStepIdsVars

\* The loop ends: no more gaps, or the ceiling is reached.
FollowUpsEnd ==
    /\ j_pc = "loop"
    /\ j_pc' = "synthesis"
    /\ UNCHANGED <<idSite, planStepIds, reportCount, followUpIds, idRounds>>
    /\ UNCHANGED nonStepIdsVars

\* The initial batch has run: one report per step of the plan, whose ids
\* are 1..n.
StepIdsInit ==
    /\ j_pc = "loop"
    /\ idSite \in {"deep", "coordinator", "search"}
    /\ \E n \in 1..MaxInitialSteps :
         /\ planStepIds = [i \in 1..n |-> i]
         /\ reportCount = n
    /\ followUpIds = <<>>
    /\ idRounds = 0

StepIdsNext ==
    \/ FollowUpBatch
    \/ FollowUpsEnd

InitStepIds ==
    StepIdsInit /\ RunnerIdle /\ FollowupIdle /\ RecursionIdle
               /\ AnalyzeIdle /\ MergeIdle /\ BodyIdle /\ PlannerIdle
               /\ FactCheckIdle /\ RetryIdle /\ SummarizerIdle
               /\ ExecutorIdle /\ ConstructorIdle /\ SearchLoopIdle
               /\ ExpansionIdle
               /\ SharedIdle

SpecStepIds == InitStepIds /\ [][StepIdsNext]_vars

\* The ids of the initial steps, which are the first steps of the plan.
InitialStepIds == SubSeq(planStepIds, 1, reportCount - Len(followUpIds))

\* C34: within one research run every follow-up step is appended to
\* plan.steps, and the ids of the initial plan steps and of all follow-up
\* steps of all rounds are pairwise distinct.
C34_FollowUpStepsAppendedDistinct ==
    j_pc # "idle" =>
        /\ planStepIds = InitialStepIds \o followUpIds
        /\ LET all == InitialStepIds \o followUpIds
           IN \A a, b \in 1..Len(all) : a # b => all[a] # all[b]

\* ---------------------------------------------------------------------------
\* Part 16: the research() invocations of one batch, all made on the single
\* SubResearchAgent of runParallelResearch and interleaved at their awaits
\* (src/src/agent/sub-agent.ts:593-603, 176-249, 339-346, 678-690).
\* ---------------------------------------------------------------------------

\* Most steps in the batch.
MaxParallel == 2

\* Largest maxSearchRounds of the agent.
MaxSharedRounds == 2

\* The queries of the steps, the URLs a search answers with and the
\* follow-up queries the model suggests.
BatchStepQueries == {<<"a">>, <<"b">>}

SearchAnswerUrls == {71, 72}

SuggestedQueries == {Unset, Given(<<"A">>), Given(<<"b">>)}

\* sub-agent.ts:186-212: usedQueryKeys, queriesUsed and mergedByUrl are
\* created by each research() call.
FreshLocals ==
    [pc |-> "call", round |-> 0, query |-> <<>>, usedQueryKeys |-> {},
     queriesUsed |-> <<>>, mergedByUrl |-> <<>>, searchAnswers |-> <<>>,
     suggestions |-> <<>>, report |-> Unset]

\* Variant of UsedKeysSeenBy in which the set is a field of the agent.
UsedKeysOfAgent(locals, i) == UNION {locals[j].usedQueryKeys : j \in DOMAIN locals}

\* sub-agent.ts:190: the usedQueryKeys an invocation reads and writes is the
\* Set its own call created.
UsedKeysSeenBy(locals, i) == locals[i].usedQueryKeys

\* sub-agent.ts:193-199 for results that differ in their URL only: the Map
\* keeps one entry per URL, in insertion order.
MergeByUrl(urls, url) == IF url \in Elements(urls) THEN urls ELSE Append(urls, url)

\* sub-agent.ts:215-229: invocation i at the head of round r with a query.
HeadOfRound(locals, i, r, query) ==
    IF r <= sharedLimit /\ MaySearch(normalizeQueryKey(query), UsedKeysSeenBy(locals, i))
    THEN [locals[i] EXCEPT !.pc = "searching", !.round = r, !.query = query,
                           !.usedQueryKeys = @ \cup {normalizeQueryKey(query)},
                           !.queriesUsed = Append(@, query)]
    ELSE [locals[i] EXCEPT !.pc = "analysing"]

\* Another invocation is between its start and its return.
OthersUnderWay(i) ==
    \E j \in DOMAIN invocationOf : j # i /\ invocationOf[j].pc \notin {"call", "done"}

\* sub-agent.ts:680-685, 627, 214-229: a worker takes the next index and
\* research(step) runs up to its first await.
InvocationStarts(i) ==
    /\ c_pc = "batch"
    /\ invocationOf[i].pc = "call"
    /\ \A j \in 1..(i - 1) : invocationOf[j].pc # "call"
    /\ invocationOf' = [invocationOf EXCEPT
                            ![i] = HeadOfRound(invocationOf, i, 1, batchQueries[i])]
    /\ interleaved' = (interleaved \/ OthersUnderWay(i))
    /\ UNCHANGED <<c_pc, sharedLimit, batchQueries>>
    /\ UNCHANGED nonSharedVars

\* sub-agent.ts:229-244: the search of invocation i resolves.
InvocationSearchSettles(i) ==
    /\ c_pc = "batch"
    /\ invocationOf[i].pc = "searching"
    /\ \E url \in SearchAnswerUrls :
         invocationOf' = [invocationOf EXCEPT
             ![i].mergedByUrl = MergeByUrl(@, url),
             ![i].searchAnswers = Append(@, url),
             ![i].pc = IF SuggestionWanted(invocationOf[i].round, sharedLimit)
                       THEN "suggesting" ELSE "analysing"]
    /\ interleaved' = (interleaved \/ OthersUnderWay(i))
    /\ UNCHANGED <<c_pc, sharedLimit, batchQueries>>
    /\ UNCHANGED nonSharedVars

\* sub-agent.ts:244-249, 215-229: the suggestion of invocation i comes back.
InvocationSuggestionSettles(i) ==
    /\ c_pc = "batch"
    /\ invocationOf[i].pc = "suggesting"
    /\ \E answer \in SuggestedQueries :
         LET nextQuery == suggestFollowUpQuery(answer)
             heard == [invocationOf EXCEPT ![i].suggestions = Append(@, answer)]
         IN invocationOf' =
              IF ~nextQuery.given
                 \/ ~MaySearch(normalizeQueryKey(nextQuery.value), UsedKeysSeenBy(heard, i))
              THEN [heard EXCEPT ![i].pc = "analysing"]
              ELSE [heard EXCEPT
                      ![i] = HeadOfRound(heard, i, heard[i].round + 1, nextQuery.value)]
    /\ interleaved' = (interleaved \/ OthersUnderWay(i))
    /\ UNCHANGED <<c_pc, sharedLimit, batchQueries>>
    /\ UNCHANGED nonSharedVars

\* sub-agent.ts:251, 339-346: invocation i resolves with its report.
InvocationReturns(i) ==
    /\ c_pc = "batch"
    /\ invocationOf[i].pc = "analysing"
    /\ invocationOf' = [invocationOf EXCEPT
            ![i].pc = "done",
            ![i].report = Given([query |-> batchQueries[i],
                                 sources |-> invocationOf[i].mergedByUrl])]
    /\ interleaved' = (interleaved \/ OthersUnderWay(i))
    /\ UNCHANGED <<c_pc, sharedLimit, batchQueries>>
    /\ UNCHANGED nonSharedVars

SharedInit ==
    /\ c_pc = "batch"
    /\ sharedLimit \in 1..MaxSharedRounds
    /\ \E n \in 1..MaxParallel : batchQueries \in [1..n -> BatchStepQueries]
    /\ invocationOf = [i \in DOMAIN batchQueries |-> FreshLocals]
    /\ interleaved = FALSE

SharedNext ==
    \/ \E i \in DOMAIN invocationOf : InvocationStarts(i)
    \/ \E i \in DOMAIN invocationOf : InvocationSearchSettles(i)
    \/ \E i \in DOMAIN invocationOf : InvocationSuggestionSettles(i)
    \/ \E i \in DOMAIN invocationOf : InvocationReturns(i)

InitShared ==
    SharedInit /\ RunnerIdle /\ FollowupIdle /\ RecursionIdle
              /\ AnalyzeIdle /\ MergeIdle /\ BodyIdle /\ PlannerIdle
              /\ FactCheckIdle /\ RetryIdle /\ SummarizerIdle
              /\ ExecutorIdle /\ ConstructorIdle /\ SearchLoopIdle
              /\ ExpansionIdle /\ StepIdsIdle

SpecShared == InitShared /\ [][SharedNext]_vars

RECURSIVE SourcesAlone(_, _, _, _, _, _)

\* The sources research() collects for a query when its invocation is the
\* only one, given the answers to its searches and suggestion requests in
\* order; 0 is appended if it would make a call that has no answer here.
SourcesAlone(r, query, used, urls, searchAnswers, suggestions) ==
    IF r > sharedLimit \/ ~MaySearch(normalizeQueryKey(query), used) THEN urls
    ELSE IF r > Len(searchAnswers) THEN Append(urls, 0)
    ELSE LET now == MergeByUrl(urls, searchAnswers[r])
             keys == used \cup {normalizeQueryKey(query)}
         IN IF ~SuggestionWanted(r, sharedLimit) THEN now
            ELSE IF r > Len(suggestions) THEN Append(now, 0)
            ELSE LET nextQuery == suggestFollowUpQuery(suggestions[r])
                 IN IF ~nextQuery.given
                       \/ ~MaySearch(normalizeQueryKey(nextQuery.value), keys)
                    THEN now
                    ELSE SourcesAlone(r + 1, nextQuery.value, keys, now,
                                      searchAnswers, suggestions)

\* The report of step i when it is researched alone with the same answers.
ReportAlone(i) ==
    [query |-> batchQueries[i],
     sources |-> SourcesAlone(1, batchQueries[i], {}, <<>>,
                              invocationOf[i].searchAnswers, invocationOf[i].suggestions)]

\* A step of the batch changes the locals of at most one invocation and no
\* field of the agent.
OneInvocationMoves ==
    /\ sharedLimit' = sharedLimit
    /\ \E i \in DOMAIN invocationOf :
         \A j \in DOMAIN invocationOf : j # i => invocationOf'[j] = invocationOf[j]

\* C38: the concurrent research() invocations of a batch on the one agent
\* share no mutable state (each has its own URL map, used-query set and
\* source list, and the agent's fields are not written), and under every
\* interleaving each step's report is the report the step gets when it is
\* researched alone with the same provider answers.
C38_InvocationsIndependent ==
    /\ [](\A i \in DOMAIN invocationOf :
            invocationOf[i].pc = "done" => invocationOf[i].report = Given(ReportAlone(i)))
    /\ [][c_pc = "batch" => OneInvocationMoves]_vars

\* C38 witness: two steps with the same query were researched by
\* interleaved invocations, both ran two rounds with the same two query
\* keys, and each came back with its own two sources.
C38_Witness ==
    /\ c_pc = "batch"
    /\ interleaved
    /\ Len(invocationOf) = 2
    /\ batchQueries[1] = batchQueries[2]
    /\ \A i \in 1..2 :
         /\ invocationOf[i].pc = "done"
         /\ Cardinality(invocationOf[i].usedQueryKeys) = 2
         /\ Len(invocationOf[i].report.value.sources) = 2
    /\ invocationOf[1].usedQueryKeys = invocationOf[2].usedQueryKeys
    /\ invocationOf[1].report.value.sources # invocationOf[2].report.value.sources

====
